---------------------------- MODULE Spec2Model ----------------------------
(***************************************************************************)
(* Cerberus-V packet plane: the XDP classifier (src/ebpf/xdp_filter.c),    *)
(* the AF_XDP loader and drain loop (src/userspace/af_xdp_loader.c), the   *)
(* host-stack classifier node (src/vpp/plugins/ebpf_classify.c).           *)
(*                                                                         *)
(* The specifications share the variables:                                 *)
(*   Spec          the data plane as the loader leaves it once startup has *)
(*                 succeeded: frames arrive at the classifier, the kernel  *)
(*                 side of the socket follows the AF_XDP receive path, the *)
(*                 drainer runs process_packets.                           *)
(*   DrainSpec     process_packets against an RX producer that is only     *)
(*                 bound by the ring protocol (it may publish any          *)
(*                 descriptor); FairDrainSpec adds the scheduling of the   *)
(*                 drainer thread.                                         *)
(*   StrayDrainSpec  process_packets against RX descriptors whose address  *)
(*                 lies outside the UMEM.                                  *)
(*   AllocSpec     xsk_alloc_umem_frame and xsk_free_umem_frame called in  *)
(*                 any order on the allocator as the socket set-up leaves  *)
(*                 it.                                                     *)
(*   LoaderSpec    the life cycle of main(): startup with every failure    *)
(*                 point, the drain loop, cleanup_and_exit.                *)
(*   HscSpec       ebpf_classify_init and ebpf_classify_node_fn run by the *)
(*                 main thread: frames of buffers against the shared maps. *)
(*   HscWorkersSpec  the same node run by concurrent worker threads,       *)
(*                 interleaved at the map calls.                           *)
(*   HscModeSpec   the node on the main thread of the initialised plugin,   *)
(*                 with em->stateful_mode, which update_session reads, set *)
(*                 or cleared.                                             *)
(*   HelloAclSpec  the hello-acl node (src/vpp/plugins/hello_acl.c) and its *)
(*                 enable/disable command on the main thread.              *)
(***************************************************************************)
EXTENDS Integers, Sequences, FiniteSets, TLC

VARIABLES
    stats,            \* stats_map: per-CPU array, [cpu -> [key -> count]]
    arrived,          \* frames handed to xdp_firewall so far
    lastFrame,        \* the xdp_md of the latest frame
    lastRet,          \* what xdp_firewall returned for it
    lastIndex,        \* the xsk_map index it was redirected to (NoIndex: none)
    offQueue,         \* some frame arrived on a queue other than the socket's
    config_queue_id,  \* config.queue_id
    xsk_map,          \* xsk_map: [index -> TRUE when a socket is registered]
    fq,               \* fill ring: addresses posted for the kernel
    rx_ring,          \* RX ring descriptor array
    rx_prod,          \* RX producer cursor (kernel)
    rx_cons,          \* RX consumer cursor as published by release
    idx_rx,           \* process_packets: idx_rx
    rcvd,             \* process_packets: rcvd
    i,                \* process_packets: loop counter i
    umem_frame_addr,  \* xsk_socket_info.umem_frame_addr
    umem_frame_free,  \* xsk_socket_info.umem_frame_free
    last_call,        \* the latest call of the frame allocator
    keep_running,     \* the cancellation flag
    pc,               \* position of the main thread
    produced,         \* descriptors published on the RX ring, in order
    handled,          \* descriptors the drainer handled, in order
    pollsAfter,       \* poll calls made with keep_running already false
    batchesAfter,     \* batches started with keep_running already false
    ifindex,          \* config.ifindex
    bpf_obj,          \* the global bpf_obj: "NULL", "open", "closed", "error"
    xsk_socket_info,  \* the global xsk_socket_info: "NULL" or "configured"
    events,           \* acquisitions and releases of resources, in order
    exit_code,        \* "running" until the process exits
    em,               \* ebpf_classify_main
    acl_v4,           \* the pinned ACL map: 5-tuple -> rule
    sessions,         \* the pinned session map: 5-tuple -> session entry
    vpp_stats,        \* the pinned stats map: key 0 -> ebpf_stats_t
    now,              \* the clock vlib_time_now reads
    worker,           \* per thread: the locals of ebpf_classify_node_fn
    next_frames,      \* per thread: the frames of the next nodes being filled
    hsc_ready,        \* ebpf_classify_init has run
    hm,               \* hello_acl_main
    hello             \* the locals of hello_acl_inline and its next frames

kcVars    == <<stats, arrived, lastFrame, lastRet, lastIndex, offQueue>>
sockVars  == <<config_queue_id, xsk_map>>
ringVars  == <<fq, rx_ring, rx_prod, rx_cons, produced>>
drainVars == <<idx_rx, rcvd, i, handled, pollsAfter, batchesAfter>>
umemVars  == <<umem_frame_addr, umem_frame_free, last_call>>
loaderVars == <<ifindex, bpf_obj, xsk_socket_info, events, exit_code>>
helloVars == <<hm, hello>>
hscVars == <<em, acl_v4, sessions, vpp_stats, now, worker, next_frames,
            hsc_ready, helloVars>>
vars == <<kcVars, sockVars, ringVars, drainVars, umemVars, keep_running, pc,
          loaderVars, hscVars>>

----------------------------------------------------------------------------
(* Bounds of the model *)

MaxFrames == 2        \* frames delivered to the classifier in one run
NumQueues == 2        \* receive queues of the interface
MaxDesc == 5          \* descriptors the unconstrained RX producer publishes
UMEM_NUM_FRAMES == 2  \* 4096 in the source (af_xdp_loader.c:27), scaled
RX_BATCH_SIZE == 2    \* 64 in the source (af_xdp_loader.c:29), scaled
RING_SIZE == 4        \* libxdp's default of 2048 descriptors, scaled

(* Program constants *)

FRAME_SIZE == 2048
INVALID_UMEM_FRAME == -1     \* UINT64_MAX: a value no frame address takes
STAT_PASS == 0
STAT_DROP == 1
STAT_REDIRECT == 2
STAT_ERROR == 3
STATS_MAX_ENTRIES == 4
ETH_HLEN == 14               \* sizeof(struct ethhdr)
IP_HLEN == 20                \* sizeof(struct iphdr)
ETH_P_IP == 2048             \* 0x0800
ETH_P_ARP == 2054            \* 0x0806
ETH_P_IPV6 == 34525          \* 0x86DD
IPPROTO_ICMP == 1
IPPROTO_TCP == 6
IPPROTO_UDP == 17

Queues == 0 .. NumQueues - 1
\* Each receive queue is served by one CPU, which runs the classifier for the
\* frames of that queue and owns one copy of the per-CPU stats_map.
CPUs == Queues
CpuOfQueue(q) == q
StatKeys == 0 .. STATS_MAX_ENTRIES - 1
NoIndex == 0 - 1
NoFrame == [len |-> 0, h_proto |-> 0, protocol |-> 0, rx_queue_index |-> 0]

Min(a, b) == IF a < b THEN a ELSE b

----------------------------------------------------------------------------
(* Frames *)

\* bpf_htons on a little-endian target: the two bytes swapped.
bpf_htons(x) == (x % 256) * 256 + (x \div 256)

\* Lengths on both sides of each bounds check of xdp_firewall.
FrameLens == {ETH_HLEN - 1, ETH_HLEN, ETH_HLEN + IP_HLEN - 1, ETH_HLEN + IP_HLEN}

\* What the classifier is handed: the length (data_end - data), the bytes of
\* eth->h_proto as the CPU loads them, ip->protocol, and the receive queue.
\* The header fields of a short frame are whatever lies past data_end.
Frames ==
    [len : FrameLens,
     h_proto : {bpf_htons(ETH_P_IP), bpf_htons(ETH_P_ARP), bpf_htons(ETH_P_IPV6)},
     protocol : {IPPROTO_ICMP, IPPROTO_TCP, IPPROTO_UDP},
     rx_queue_index : Queues]

----------------------------------------------------------------------------
(* The kernel classifier, src/ebpf/xdp_filter.c *)

\* update_stats with a stats_map one entry short: the lookup of STAT_ERROR misses.
update_stats_short_map(st, cpu, key) ==
    IF key < STATS_MAX_ENTRIES - 1
    THEN [st EXCEPT ![cpu][key] = @ + 1]
    ELSE st

\* update_stats: look the key up in this CPU's copy of stats_map and add one.
update_stats(st, cpu, key) ==
    IF key < STATS_MAX_ENTRIES
    THEN [st EXCEPT ![cpu][key] = @ + 1]
    ELSE st

\* xdp_firewall with the IPv4 bounds check placed before the ethertype test.
xdp_firewall_ip_check_first(ctx, cpu, st) ==
    LET queue_id == 0 IN
    IF ETH_HLEN > ctx.len
    THEN [ret |-> "XDP_ABORTED", index |-> NoIndex,
          stats |-> update_stats(st, cpu, STAT_ERROR)]
    ELSE IF ETH_HLEN + IP_HLEN > ctx.len
    THEN [ret |-> "XDP_ABORTED", index |-> NoIndex,
          stats |-> update_stats(st, cpu, STAT_ERROR)]
    ELSE IF ctx.h_proto # bpf_htons(ETH_P_IP)
    THEN [ret |-> "XDP_PASS", index |-> NoIndex,
          stats |-> update_stats(st, cpu, STAT_PASS)]
    ELSE IF ctx.protocol = IPPROTO_ICMP
    THEN [ret |-> "XDP_DROP", index |-> NoIndex,
          stats |-> update_stats(st, cpu, STAT_DROP)]
    ELSE IF ctx.protocol = IPPROTO_TCP
    THEN [ret |-> "XDP_REDIRECT", index |-> queue_id,
          stats |-> update_stats(st, cpu, STAT_REDIRECT)]
    ELSE [ret |-> "XDP_PASS", index |-> NoIndex,
          stats |-> update_stats(st, cpu, STAT_PASS)]

\* xdp_firewall with the ICMP branch counting and redirecting like the TCP one.
xdp_firewall_icmp_redirect(ctx, cpu, st) ==
    LET queue_id == 0 IN
    IF ETH_HLEN > ctx.len
    THEN [ret |-> "XDP_ABORTED", index |-> NoIndex,
          stats |-> update_stats(st, cpu, STAT_ERROR)]
    ELSE IF ctx.h_proto # bpf_htons(ETH_P_IP)
    THEN [ret |-> "XDP_PASS", index |-> NoIndex,
          stats |-> update_stats(st, cpu, STAT_PASS)]
    ELSE IF ETH_HLEN + IP_HLEN > ctx.len
    THEN [ret |-> "XDP_ABORTED", index |-> NoIndex,
          stats |-> update_stats(st, cpu, STAT_ERROR)]
    ELSE IF ctx.protocol = IPPROTO_ICMP \/ ctx.protocol = IPPROTO_TCP
    THEN [ret |-> "XDP_REDIRECT", index |-> queue_id,
          stats |-> update_stats(st, cpu, STAT_REDIRECT)]
    ELSE [ret |-> "XDP_PASS", index |-> NoIndex,
          stats |-> update_stats(st, cpu, STAT_PASS)]

\* xdp_firewall: the return value, the xsk_map index handed to
\* bpf_redirect_map (XDP_REDIRECT stands for that call's result), and
\* stats_map after the one update_stats call of the path taken.
xdp_firewall(ctx, cpu, st) ==
    LET queue_id == 0 IN
    IF ETH_HLEN > ctx.len
    THEN [ret |-> "XDP_ABORTED", index |-> NoIndex,
          stats |-> update_stats(st, cpu, STAT_ERROR)]
    ELSE IF ctx.h_proto # bpf_htons(ETH_P_IP)
    THEN [ret |-> "XDP_PASS", index |-> NoIndex,
          stats |-> update_stats(st, cpu, STAT_PASS)]
    ELSE IF ETH_HLEN + IP_HLEN > ctx.len
    THEN [ret |-> "XDP_ABORTED", index |-> NoIndex,
          stats |-> update_stats(st, cpu, STAT_ERROR)]
    ELSE IF ctx.protocol = IPPROTO_ICMP
    THEN [ret |-> "XDP_DROP", index |-> NoIndex,
          stats |-> update_stats(st, cpu, STAT_DROP)]
    ELSE IF ctx.protocol = IPPROTO_TCP
    THEN [ret |-> "XDP_REDIRECT", index |-> queue_id,
          stats |-> update_stats(st, cpu, STAT_REDIRECT)]
    ELSE [ret |-> "XDP_PASS", index |-> NoIndex,
          stats |-> update_stats(st, cpu, STAT_PASS)]

\* A reader of the per-CPU array sums the CPUs' copies.
RECURSIVE SumCpus(_, _, _)
SumCpus(st, key, n) ==
    IF n = 0 THEN 0 ELSE st[n - 1][key] + SumCpus(st, key, n - 1)

StatTotal(st, key) == SumCpus(st, key, NumQueues)

----------------------------------------------------------------------------
(* The kernel side of the AF_XDP socket *)

RxEntries == rx_prod - rx_cons

\* The receive path of a frame redirected to xsk_map[index]: it is dropped when
\* no socket is registered there, when the socket is bound to another queue
\* than the frame's, when the fill ring offers no address, or when the RX ring
\* is full; otherwise it takes the next fill-ring address and an RX descriptor
\* {addr, len} is published.
XskDelivers(index, ctx) ==
    /\ index \in DOMAIN xsk_map
    /\ xsk_map[index]
    /\ config_queue_id = ctx.rx_queue_index
    /\ fq # <<>>
    /\ RxEntries < RING_SIZE

XskRcv(index, ctx) ==
    IF XskDelivers(index, ctx)
    THEN LET desc == [addr |-> Head(fq), len |-> ctx.len] IN
         /\ fq' = Tail(fq)
         /\ rx_ring' = [rx_ring EXCEPT ![rx_prod % RING_SIZE] = desc]
         /\ rx_prod' = rx_prod + 1
         /\ produced' = Append(produced, desc)
         /\ UNCHANGED rx_cons
    ELSE UNCHANGED ringVars

\* One frame arrives on some queue and the queue's CPU runs xdp_firewall on it
\* to completion; a redirect is carried out by the kernel right after.
FrameArrives ==
    /\ arrived < MaxFrames
    /\ \E ctx \in Frames :
          LET r == xdp_firewall(ctx, CpuOfQueue(ctx.rx_queue_index), stats) IN
          /\ stats' = r.stats
          /\ arrived' = arrived + 1
          /\ lastFrame' = ctx
          /\ lastRet' = r.ret
          /\ lastIndex' = r.index
          /\ offQueue' = (offQueue \/ ctx.rx_queue_index # config_queue_id)
          /\ IF r.ret = "XDP_REDIRECT"
             THEN XskRcv(r.index, ctx)
             ELSE UNCHANGED ringVars
    /\ UNCHANGED <<sockVars, drainVars, umemVars, keep_running, pc>>
    /\ UNCHANGED <<loaderVars, hscVars>>

----------------------------------------------------------------------------
(* The free-frame allocator and the socket set-up, af_xdp_loader.c *)

FrameIndexes == 0 .. UMEM_NUM_FRAMES - 1

\* The frame allocator initialised one frame short.
InitFrameAllocator_one_short ==
    [addr |-> [k \in FrameIndexes |-> k * FRAME_SIZE],
     free |-> UMEM_NUM_FRAMES - 1]

\* xsk_configure_socket, "Initialize frame allocator": slot k holds address
\* k * FRAME_SIZE and every frame is free.
InitFrameAllocator ==
    [addr |-> [k \in FrameIndexes |-> k * FRAME_SIZE],
     free |-> UMEM_NUM_FRAMES]

\* xsk_alloc_umem_frame: INVALID_UMEM_FRAME when no frame is free, else
\* frame = umem_frame_addr[--umem_frame_free] and the slot set to
\* INVALID_UMEM_FRAME.  touched: the indexes of umem_frame_addr it accesses.
xsk_alloc_umem_frame(addr, free) ==
    IF free = 0
    THEN [addr |-> addr, free |-> free, ret |-> INVALID_UMEM_FRAME,
          touched |-> {}]
    ELSE [addr |-> [k \in DOMAIN addr |->
                      IF k = free - 1 THEN INVALID_UMEM_FRAME ELSE addr[k]],
          free |-> free - 1, ret |-> addr[free - 1], touched |-> {free - 1}]

\* xsk_free_umem_frame with > in the place of >= in its test.
xsk_free_umem_frame_off_by_one(addr, free, frame) ==
    IF free > UMEM_NUM_FRAMES
    THEN [addr |-> addr, free |-> free, touched |-> {}]
    ELSE [addr |-> [k \in DOMAIN addr |-> IF k = free THEN frame ELSE addr[k]],
          free |-> free + 1, touched |-> {free}]

\* xsk_free_umem_frame: push, or log and return when the list is full.
xsk_free_umem_frame(addr, free, frame) ==
    IF free >= UMEM_NUM_FRAMES
    THEN [addr |-> addr, free |-> free, touched |-> {}]
    ELSE [addr |-> [addr EXCEPT ![free] = frame], free |-> free + 1,
          touched |-> {free}]

\* What last_call holds: the function, the frame (returned by alloc, passed
\* to free) and the indexes of umem_frame_addr the call accessed.
NoCall == [op |-> "none", frame |-> INVALID_UMEM_FRAME, touched |-> {}]
AllocCall(u) == [op |-> "alloc", frame |-> u.ret, touched |-> u.touched]
FreeCall(u, frame) == [op |-> "free", frame |-> frame, touched |-> u.touched]

\* xsk_socket__update_xskmap: the socket is stored at the index of its queue.
UpdateXskmap(queue_id) == [q \in Queues |-> q = queue_id]

\* xsk_umem__create and xsk_socket__create leave every ring empty.
EmptyDesc == [addr |-> INVALID_UMEM_FRAME, len |-> 0]
EmptyRing == [s \in 0 .. RING_SIZE - 1 |-> EmptyDesc]

----------------------------------------------------------------------------
(* process_packets, af_xdp_loader.c *)

\* signal_handler
SignalArrives ==
    /\ keep_running' = FALSE
    /\ UNCHANGED <<kcVars, sockVars, ringVars, drainVars, umemVars, pc>>
    /\ UNCHANGED <<loaderVars, hscVars>>

\* The loop head with the test of keep_running skipped once the loop runs.
LoopHead_no_recheck ==
    /\ pc = "head"
    /\ pc' = "poll"
    /\ UNCHANGED <<kcVars, sockVars, ringVars, drainVars, umemVars, keep_running>>
    /\ UNCHANGED <<loaderVars, hscVars>>

\* while (keep_running)
LoopHead ==
    /\ pc = "head"
    /\ pc' = IF keep_running THEN "poll" ELSE "returned"
    /\ UNCHANGED <<kcVars, sockVars, ringVars, drainVars, umemVars, keep_running>>
    /\ UNCHANGED <<loaderVars, hscVars>>

\* What poll(fds, 1, 1000) can report: the timeout, EINTR, another error,
\* or POLLIN, which the socket raises only while its RX ring is not empty.
PollOutcomes ==
    {"timeout", "eintr", "error"} \cup
    (IF RxEntries > 0 THEN {"readable"} ELSE {})

Saturate(n) == Min(n + 1, 2)

\* poll and what follows it up to the for loop: EINTR and the timeout go
\* back to the loop head, another error leaves the loop, POLLIN peeks up to
\* RX_BATCH_SIZE descriptors (idx_rx is the consumer cursor) and goes back to
\* the loop head when there is none.
Poll ==
    /\ pc = "poll"
    /\ pollsAfter' = IF keep_running THEN pollsAfter ELSE Saturate(pollsAfter)
    /\ \E outcome \in PollOutcomes :
          IF outcome = "readable"
          THEN LET n == Min(rx_prod - rx_cons, RX_BATCH_SIZE) IN
               /\ rcvd' = n
               /\ idx_rx' = rx_cons
               /\ i' = 0
               /\ pc' = IF n = 0 THEN "head" ELSE "handle"
               /\ batchesAfter' = IF keep_running \/ n = 0
                                  THEN batchesAfter
                                  ELSE Saturate(batchesAfter)
          ELSE /\ pc' = IF outcome = "error" THEN "returned" ELSE "head"
               /\ UNCHANGED <<rcvd, idx_rx, i, batchesAfter>>
    /\ UNCHANGED <<kcVars, sockVars, ringVars, umemVars, keep_running, handled>>
    /\ UNCHANGED <<loaderVars, hscVars>>

\* One pass of the for loop with idx_rx++ left out.
HandleDescriptor_no_advance ==
    /\ pc = "handle"
    /\ LET desc == rx_ring[idx_rx % RING_SIZE]
           u == xsk_free_umem_frame(umem_frame_addr, umem_frame_free, desc.addr)
       IN /\ handled' = Append(handled, [idx |-> idx_rx, addr |-> desc.addr,
                                         len |-> desc.len])
          /\ umem_frame_addr' = u.addr
          /\ umem_frame_free' = u.free
          /\ last_call' = FreeCall(u, desc.addr)
    /\ i' = i + 1
    /\ pc' = IF i + 1 < rcvd THEN "handle" ELSE "release"
    /\ UNCHANGED <<kcVars, sockVars, ringVars, keep_running, rcvd, idx_rx,
                   pollsAfter, batchesAfter>>
    /\ UNCHANGED <<loaderVars, hscVars>>

\* One pass of the for loop: read addr and len of the descriptor at idx_rx,
\* handle the packet, free the frame, idx_rx++.
HandleDescriptor ==
    /\ pc = "handle"
    /\ LET desc == rx_ring[idx_rx % RING_SIZE]
           u == xsk_free_umem_frame(umem_frame_addr, umem_frame_free, desc.addr)
       IN /\ handled' = Append(handled, [idx |-> idx_rx, addr |-> desc.addr,
                                         len |-> desc.len])
          /\ umem_frame_addr' = u.addr
          /\ umem_frame_free' = u.free
          /\ last_call' = FreeCall(u, desc.addr)
    /\ idx_rx' = idx_rx + 1
    /\ i' = i + 1
    /\ pc' = IF i + 1 < rcvd THEN "handle" ELSE "release"
    /\ UNCHANGED <<kcVars, sockVars, ringVars, keep_running, rcvd,
                   pollsAfter, batchesAfter>>
    /\ UNCHANGED <<loaderVars, hscVars>>

\* xsk_ring_cons__release(&rx, rcvd), then back to the loop head.
Release ==
    /\ pc = "release"
    /\ rx_cons' = rx_cons + rcvd
    /\ pc' = "head"
    /\ UNCHANGED <<kcVars, sockVars, fq, rx_ring, rx_prod, produced, drainVars,
                   umemVars, keep_running>>
    /\ UNCHANGED <<loaderVars, hscVars>>

\* The resources of the loader in the order a successful startup acquires
\* them: load_xdp_program, then xsk_configure_socket.
Acquire(res) == [op |-> "acquire", res |-> res]
Free(res) == [op |-> "release", res |-> res]
StartupEvents ==
    <<Acquire("bpf_obj"), Acquire("attach"), Acquire("xsk_info"),
      Acquire("umem_info"), Acquire("buffer"), Acquire("umem"),
      Acquire("socket")>>

----------------------------------------------------------------------------
(* The host-stack classifier, src/vpp/plugins/ebpf_classify.c: constants,  *)
(* buffers, the shared maps and the helper functions                       *)

MaxVectors == 2       \* frame->n_vectors: buffers in one frame
NumWorkers == 2       \* threads that run the node in HscWorkersSpec
MaxTime == 3          \* buffers handed to the node in one run (clock ticks)
CONN_TABLE_SIZE == 2  \* rows of the session table (65536), scaled
SecondsPerTick == 200 \* the time from one buffer to the next
VLIB_FRAME_SIZE == 1  \* vectors a next frame holds (256), scaled
MaxIfIndex == 2       \* the highest sw_if_index of an interface

EBPF_CLASSIFY_NEXT_DROP == 0
EBPF_CLASSIFY_NEXT_IP4_LOOKUP == 1
EBPF_CLASSIFY_NEXT_IP6_LOOKUP == 2
EBPF_CLASSIFY_NEXT_ETHERNET_INPUT == 3
EBPF_CLASSIFY_N_NEXT == 4
EBPF_CLASSIFY_ERROR_PROCESSED == 0
EBPF_CLASSIFY_ERROR_DROPPED == 1
EBPF_CLASSIFY_ERROR_MAP_LOOKUP_FAILED == 2
EBPF_CLASSIFY_ERROR_INVALID_PACKET == 3
ACL_ACTION_DROP == 0         \* acl_rule_t.action: 0=drop, 1=allow, 2=log
ACL_ACTION_ALLOW == 1
ACL_ACTION_LOG == 2
SESSION_STATE_INITIAL == 1   \* session.state = 1
L4_PORTS_LEN == 4            \* the two u16 ports behind the IPv4 header
ETHERNET_TYPE_IP4 == ETH_P_IP
IP_PROTOCOL_TCP == IPPROTO_TCP
IP_PROTOCOL_UDP == IPPROTO_UDP
IP_PROTOCOL_ICMP == IPPROTO_ICMP

Workers == 0 .. NumWorkers - 1
MainThread == 0
NoError == 0 - 1      \* b0->error as the previous node left it
NoRule == 0 - 1       \* no rule stored under a key

\* clib_net_to_host_u16 and clib_net_to_host_u32 on a little-endian host: the
\* bytes reversed.
clib_net_to_host_u16(x) == (x % 256) * 256 + (x \div 256)
clib_net_to_host_u32(x) ==
    (x % 256) * 16777216 + ((x \div 256) % 256) * 65536
    + ((x \div 65536) % 256) * 256 + (x \div 16777216)

\* Buffers as the node reads them: eth0->type, the chain length, the IPv4
\* addresses and protocol, and ports[0], ports[1], each as loaded from the
\* wire (network byte order).
MkBuffer(ethertype, len, src, dst, protocol, sport, dport) ==
    [type |-> clib_net_to_host_u16(ethertype),
     len |-> len,
     src_address |-> clib_net_to_host_u32(src),
     dst_address |-> clib_net_to_host_u32(dst),
     protocol |-> protocol,
     ports |-> <<clib_net_to_host_u16(sport), clib_net_to_host_u16(dport)>>]

NoBuffer == [type |-> 0, len |-> 0, src_address |-> 0, dst_address |-> 0,
             protocol |-> 0, ports |-> <<0, 0>>]

\* 10.0.0.h
HostAddr(h) == 10 * 16777216 + h
HostA == HostAddr(1)
HostB == HostAddr(2)

\* One connection seen from its two ends: A:5000 -> B:80 and B:80 -> A:5000.
FlowAB(ethertype, len, protocol) ==
    MkBuffer(ethertype, len, HostA, HostB, protocol, 5000, 80)
FlowBA(ethertype, len, protocol) ==
    MkBuffer(ethertype, len, HostB, HostA, protocol, 80, 5000)

\* Lengths on both sides of the two length tests of the node.
HSC_LEN_SHORT == ETH_HLEN + IP_HLEN - 1
HSC_LEN_HEADERS == ETH_HLEN + IP_HLEN
HSC_LEN_PORTS == ETH_HLEN + IP_HLEN + L4_PORTS_LEN

\* The buffers a frame is made of: ARP and IPv6, a truncated IPv4 buffer, TCP
\* without and with room for the ports, the opposite direction, ICMP.
Buffers ==
    {FlowAB(ETH_P_ARP, HSC_LEN_SHORT, IP_PROTOCOL_TCP),
     FlowAB(ETH_P_IPV6, HSC_LEN_PORTS, IP_PROTOCOL_TCP),
     FlowAB(ETHERNET_TYPE_IP4, HSC_LEN_SHORT, IP_PROTOCOL_TCP),
     FlowAB(ETHERNET_TYPE_IP4, HSC_LEN_HEADERS, IP_PROTOCOL_TCP),
     FlowAB(ETHERNET_TYPE_IP4, HSC_LEN_PORTS, IP_PROTOCOL_TCP),
     FlowBA(ETHERNET_TYPE_IP4, HSC_LEN_PORTS, IP_PROTOCOL_TCP),
     FlowAB(ETHERNET_TYPE_IP4, HSC_LEN_PORTS, IP_PROTOCOL_ICMP)}

\* The buffers the threads of HscWorkersSpec receive: the TCP buffers of the
\* two directions, the ones that reach the shared maps.
WorkerBuffers ==
    {FlowAB(ETHERNET_TYPE_IP4, HSC_LEN_PORTS, IP_PROTOCOL_TCP),
     FlowBA(ETHERNET_TYPE_IP4, HSC_LEN_PORTS, IP_PROTOCOL_TCP)}

IsIp4(b) == clib_net_to_host_u16(b.type) = ETHERNET_TYPE_IP4
HasIp4Header(b) == b.len >= ETH_HLEN + IP_HLEN

\* The 5-tuple the node extracts: addresses and ports through net-to-host, the
\* ports only for TCP and UDP and only when the buffer holds them, else 0.
ExtractKey(b) ==
    LET has_ports ==
            /\ b.protocol = IP_PROTOCOL_TCP \/ b.protocol = IP_PROTOCOL_UDP
            /\ b.len >= ETH_HLEN + IP_HLEN + L4_PORTS_LEN
    IN [src_ip |-> clib_net_to_host_u32(b.src_address),
        dst_ip |-> clib_net_to_host_u32(b.dst_address),
        src_port |-> IF has_ports THEN clib_net_to_host_u16(b.ports[1]) ELSE 0,
        dst_port |-> IF has_ports THEN clib_net_to_host_u16(b.ports[2]) ELSE 0,
        protocol |-> b.protocol]

NoKey == [src_ip |-> 0, dst_ip |-> 0, src_port |-> 0, dst_port |-> 0,
          protocol |-> 0]

\* A map's content is a function from the keys stored to their values.
EmptyMap == [k \in {} |-> 0]

\* bpf_map_lookup_elem through a descriptor: 0 and the value when the
\* descriptor is an open map that holds the key, else -1.  A descriptor that
\* is -1, closed, or 0 (standard input) is not a map and the call fails.
bpf_map_lookup_elem(fd, map, key, none) ==
    IF fd = "open" /\ key \in DOMAIN map
    THEN [ret |-> 0, value |-> map[key]]
    ELSE [ret |-> 0 - 1, value |-> none]

\* bpf_map_update_elem(fd, key, value, BPF_ANY): the map afterwards.
bpf_map_update_elem(fd, map, key, value) ==
    IF fd = "open"
    THEN [k \in DOMAIN map \cup {key} |-> IF k = key THEN value ELSE map[k]]
    ELSE map

\* The slot of a key in the session table: the table is an array of
\* CONN_TABLE_SIZE rows indexed by the key's hash.
key_hash(key) ==
    key.src_ip + 2 * key.dst_ip + 3 * key.src_port + 4 * key.dst_port
    + 5 * key.protocol
SessionSlot(key) == key_hash(key) % CONN_TABLE_SIZE

\* bpf_map_update_elem(em->session_map_fd, key, value, BPF_ANY): the session
\* table afterwards.  The row goes to the slot of its key and overwrites the
\* row that was there, of this key or of another.
bpf_map_update_elem_sessions(fd, map, key, value) ==
    IF fd = "open"
    THEN LET kept == {k \in DOMAIN map : SessionSlot(k) # SessionSlot(key)}
         IN [k \in kept \cup {key} |-> IF k = key THEN value ELSE map[k]]
    ELSE map

NoRuleValue == [action |-> NoRule]
NoStats == [map_lookups |-> 0, map_hits |-> 0]
NoSession == [src_ip |-> 0, dst_ip |-> 0, src_port |-> 0, dst_port |-> 0,
              protocol |-> 0, state |-> 0, last_seen |-> 0, bytes_rx |-> 0,
              bytes_tx |-> 0]

\* The keys of the buffers that pass the header test.
BufferKeys == {ExtractKey(b) : b \in {x \in Buffers : IsIp4(x) /\ HasIp4Header(x)}}

\* The ACL tables the control plane may have installed: one choice per
\* direction of the connection (no rule, DROP, ALLOW, LOG), stored under
\* every key of that direction.
RuleChoices == {NoRule, ACL_ACTION_DROP, ACL_ACTION_ALLOW, ACL_ACTION_LOG}
AclTable(ab, ba) ==
    LET choice(k) == IF k.src_ip = HostA THEN ab ELSE ba IN
    [k \in {x \in BufferKeys : choice(x) # NoRule} |-> [action |-> choice(k)]]
AclTables == {AclTable(ab, ba) : ab \in RuleChoices, ba \in RuleChoices}

\* The new entry with the two endpoints stored the other way round.
NewSession_reversed(key, packet_len, time) ==
    [src_ip |-> key.dst_ip, dst_ip |-> key.src_ip,
     src_port |-> key.dst_port, dst_port |-> key.src_port,
     protocol |-> key.protocol, state |-> SESSION_STATE_INITIAL,
     last_seen |-> time, bytes_rx |-> packet_len, bytes_tx |-> 0]

\* update_session, the entry written on a miss of the lookup.
NewSession(key, packet_len, time) ==
    [src_ip |-> key.src_ip, dst_ip |-> key.dst_ip,
     src_port |-> key.src_port, dst_port |-> key.dst_port,
     protocol |-> key.protocol, state |-> SESSION_STATE_INITIAL,
     last_seen |-> time, bytes_rx |-> packet_len, bytes_tx |-> 0]

\* update_session writing the packet length over bytes_rx on a hit instead of
\* adding it.
TouchSession_overwrites_bytes(session, packet_len, time) ==
    [session EXCEPT !.last_seen = time, !.bytes_rx = packet_len]

\* update_session, the entry written back on a hit.
TouchSession(session, packet_len, time) ==
    [session EXCEPT !.last_seen = time, !.bytes_rx = @ + packet_len]

\* The next nodes of ebpf-classify-inline, and the frames being filled for
\* them by one call of the node function: next_index and n_left_to_next are
\* the locals of that name, to_next[n] the buffer indices the frames of next
\* node n hold, in order, n_vectors the size of the input frame and ret the
\* value returned.  The buffer indices of the input frame are 1 .. n_vectors.
NextNodes == 0 .. EBPF_CLASSIFY_N_NEXT - 1
NoNext == 0 - 1
NoReturn == 0 - 1
NoFrames ==
    [next_index |-> NoNext, n_left_to_next |-> 0,
     to_next |-> [n \in NextNodes |-> << >>], n_vectors |-> 0,
     ret |-> NoReturn]

\* node->cached_next_index, which the node function reads at entry and never
\* writes: the value the node runtime is created with, the first next node.
cached_next_index == EBPF_CLASSIFY_NEXT_DROP

\* vlib_get_next_frame: the frame being filled for the next node, a new one
\* when that is full, and the room left in it.
vlib_get_next_frame(f, next_index) ==
    [f EXCEPT !.next_index = next_index,
              !.n_left_to_next =
                  VLIB_FRAME_SIZE
                      - (Len(f.to_next[next_index]) % VLIB_FRAME_SIZE)]

\* vlib_put_next_frame: the frame of next_index is handed over with the
\* vectors written so far, counted by the room said to be left; a slot
\* written beyond that count is not part of the frame.
vlib_put_next_frame(f, n_left_to_next) ==
    LET given_back == n_left_to_next - f.n_left_to_next
        written == f.to_next[f.next_index]
    IN [f EXCEPT !.to_next[f.next_index] =
                     SubSeq(written, 1, Len(written) - given_back)]

\* The enqueue that leaves the speculative copy of bi0 in the frame of
\* next_index when the buffer goes to another next node.
vlib_validate_buffer_enqueue_x1_keeps_copy(f, bi0, next0) ==
    IF next0 # f.next_index
    THEN LET put == vlib_put_next_frame(f, f.n_left_to_next)
             got == vlib_get_next_frame(put, next0)
         IN [got EXCEPT !.to_next[next0] = Append(@, bi0),
                        !.n_left_to_next = @ - 1]
    ELSE f

\* vlib_validate_buffer_enqueue_x1 as the node calls it: when next0 is not
\* the next node the buffer was speculatively written to, that frame is put
\* back without the buffer, and the buffer is written to the frame of next0,
\* which becomes next_index.
vlib_validate_buffer_enqueue_x1(f, bi0, next0) ==
    IF next0 # f.next_index
    THEN LET put == vlib_put_next_frame(f, f.n_left_to_next + 1)
             got == vlib_get_next_frame(put, next0)
         IN [got EXCEPT !.to_next[next0] = Append(@, bi0),
                        !.n_left_to_next = @ - 1]
    ELSE f

\* One pass of the inner loop for buffer bi0, as far as the frames go: the
\* outer loop gets a frame of next_index (cached_next_index at first)
\* when the one before has no room left, to_next[0] = bi0 writes the buffer
\* to it, and the enqueue moves it to next0.
EnqueueBuffer(f, bi0, next0) ==
    LET head == IF f.next_index = NoNext
                THEN vlib_get_next_frame(f, cached_next_index)
                ELSE IF f.n_left_to_next = 0
                THEN vlib_get_next_frame(
                         vlib_put_next_frame(f, f.n_left_to_next),
                         f.next_index)
                ELSE f
        written == [head EXCEPT !.to_next[head.next_index] = Append(@, bi0),
                                !.n_left_to_next = @ - 1]
    IN vlib_validate_buffer_enqueue_x1(written, bi0, next0)

\* The locals of ebpf_classify_node_fn for one thread; prev and b0 are the
\* previous and the current buffer of the frame, calls the map calls made for
\* b0, counted the local counter b0 was added to, loaded the value read by a
\* += on em->stats.
IdleWorker ==
    [pc |-> "idle", n_left_from |-> 0, pkts_processed |-> 0,
     pkts_dropped |-> 0, prev |-> NoBuffer, b0 |-> NoBuffer,
     next0 |-> EBPF_CLASSIFY_NEXT_IP4_LOOKUP, error |-> NoError,
     key |-> NoKey, lookup_result |-> 0 - 1, rule |-> NoRuleValue,
     stats |-> NoStats, session |-> NoSession, calls |-> {},
     counted |-> "none", n_invalid |-> 0, loaded |-> 0]

\* ebpf_classify_main before ebpf_classify_init: a zeroed global.
EmZero ==
    [acl_map_fd |-> "zero", stats_map_fd |-> "zero", session_map_fd |-> "zero",
     dual_protection_enabled |-> FALSE, stateful_mode |-> FALSE,
     stats |-> [packets_processed |-> 0, packets_dropped |-> 0]]

\* The hello-acl node, src/vpp/plugins/hello_acl.c: its next nodes, the
\* interfaces, and the packets it is handed.  A packet is the receive
\* interface of its buffer and the fields of its IPv4 and transport headers
\* the node reads; dst_port is in network byte order.  SW_IF_INDEX_NONE is
\* the ~0 the command starts from, an index no interface has.
HELLO_ACL_NEXT_INTERFACE_OUTPUT == 0
HELLO_ACL_NEXT_DROP == 1
HELLO_ACL_N_NEXT == 2
HelloNextNodes == 0 .. HELLO_ACL_N_NEXT - 1
IP4_VERSION_AND_HEADER_LENGTH == 69
LoggedTcpPorts == {22, 80, 443}
SW_IF_INDEX_NONE == 0 - 1
SwIfIndexes == 0 .. MaxIfIndex
HelloPacket(sw_if_index, version, protocol, port) ==
    [sw_if_index |-> sw_if_index, ip_version_and_header_length |-> version,
     protocol |-> protocol, dst_port |-> clib_net_to_host_u16(port)]
HelloPackets ==
    UNION {{HelloPacket(x, IP4_VERSION_AND_HEADER_LENGTH, IP_PROTOCOL_ICMP, 0),
            HelloPacket(x, IP4_VERSION_AND_HEADER_LENGTH + 1,
                        IP_PROTOCOL_ICMP, 0),
            HelloPacket(x, IP4_VERSION_AND_HEADER_LENGTH, IP_PROTOCOL_TCP, 80),
            HelloPacket(x, IP4_VERSION_AND_HEADER_LENGTH, IP_PROTOCOL_TCP,
                        8080),
            HelloPacket(x, IP4_VERSION_AND_HEADER_LENGTH, IP_PROTOCOL_UDP, 80)}
           : x \in SwIfIndexes}
NoHelloPacket == HelloPacket(SW_IF_INDEX_NONE, 0, 0, 0)

\* hello_acl_main as loaded: no is_enabled vector, the counters zero.  The
\* flag of interface x is is_enabled[x + 1] here.
HmZero ==
    [is_enabled |-> << >>, packets_processed |-> 0, packets_allowed |-> 0,
     packets_logged |-> 0]

\* The frames of the next nodes of hello-acl before a call.
HelloNoFrames ==
    [next_index |-> NoNext, n_left_to_next |-> 0,
     to_next |-> [n \in HelloNextNodes |-> << >>], n_vectors |-> 0,
     ret |-> NoReturn]

\* The locals of hello_acl_inline: read is the set of indices of is_enabled
\* read for b0, inspected whether the IPv4 header of b0 was read, logged
\* whether syslog was called for it.
HelloIdleLocals ==
    [pc |-> "idle", n_left_from |-> 0, pkts_processed |-> 0,
     pkts_allowed |-> 0, pkts_logged |-> 0, b0 |-> NoHelloPacket,
     next0 |-> HELLO_ACL_NEXT_INTERFACE_OUTPUT, read |-> {},
     inspected |-> FALSE, logged |-> FALSE, frames |-> HelloNoFrames]

HelloAclIdle ==
    /\ hm = HmZero
    /\ hello = HelloIdleLocals

\* The plugin not yet initialised, the shared maps as created: no rule, no
\* session, the statistics entry zero.
HscIdle ==
    /\ em = EmZero
    /\ acl_v4 = EmptyMap
    /\ sessions = EmptyMap
    /\ vpp_stats = [k \in {0} |-> NoStats]
    /\ now = 0
    /\ worker = [w \in Workers |-> IdleWorker]
    /\ next_frames = [w \in Workers |-> NoFrames]
    /\ HelloAclIdle
    /\ hsc_ready = FALSE

----------------------------------------------------------------------------
(* Spec: the data plane after a successful startup *)

\* config.queue_id is the -q argument; the socket is registered in xsk_map,
\* the allocator is initialised, nothing was posted to the fill ring, and
\* main has entered process_packets.
Init ==
    /\ stats = [c \in CPUs |-> [k \in StatKeys |-> 0]]
    /\ arrived = 0
    /\ lastFrame = NoFrame
    /\ lastRet = "none"
    /\ lastIndex = NoIndex
    /\ offQueue = FALSE
    /\ config_queue_id \in Queues
    /\ xsk_map = UpdateXskmap(config_queue_id)
    /\ fq = <<>>
    /\ rx_ring = EmptyRing
    /\ rx_prod = 0
    /\ rx_cons = 0
    /\ idx_rx = 0
    /\ rcvd = 0
    /\ i = 0
    /\ umem_frame_addr = InitFrameAllocator.addr
    /\ umem_frame_free = InitFrameAllocator.free
    /\ last_call = NoCall
    /\ keep_running = TRUE
    /\ pc = "head"
    /\ produced = <<>>
    /\ handled = <<>>
    /\ pollsAfter = 0
    /\ batchesAfter = 0
    /\ ifindex = 1
    /\ bpf_obj = "open"
    /\ xsk_socket_info = "configured"
    /\ events = StartupEvents
    /\ exit_code = "running"
    /\ HscIdle

Next ==
    \/ FrameArrives
    \/ SignalArrives
    \/ LoopHead
    \/ Poll

Spec == Init /\ [][Next]_vars

----------------------------------------------------------------------------
(* DrainSpec: process_packets against any producer that keeps the protocol *)

FrameAddrs == {k * FRAME_SIZE : k \in FrameIndexes}

\* The n-th frame delivered is n bytes longer than the shortest TCP/IPv4 frame
\* the classifier redirects, so that no two descriptors of a run are alike.
RxLen(n) == ETH_HLEN + IP_HLEN + n

\* The producer side of the RX ring under the ring protocol alone: while the
\* ring is not full it writes a descriptor at prod & mask and publishes it.
KernelPublishes ==
    /\ Len(produced) < MaxDesc
    /\ RxEntries < RING_SIZE
    /\ \E a \in FrameAddrs :
          LET desc == [addr |-> a, len |-> RxLen(rx_prod)] IN
          /\ rx_ring' = [rx_ring EXCEPT ![rx_prod % RING_SIZE] = desc]
          /\ produced' = Append(produced, desc)
    /\ rx_prod' = rx_prod + 1
    /\ UNCHANGED <<kcVars, sockVars, fq, rx_cons, drainVars, umemVars,
                   keep_running, pc>>
    /\ UNCHANGED <<loaderVars, hscVars>>

DrainerStep ==
    \/ LoopHead
    \/ Poll
    \/ HandleDescriptor
    \/ Release

DrainNext ==
    \/ KernelPublishes
    \/ SignalArrives
    \/ DrainerStep

\* The socket of the default queue, as Init leaves it.
DrainInit == Init /\ config_queue_id = 0

DrainSpec == DrainInit /\ [][DrainNext]_vars

\* The drainer is a running thread and poll returns within its timeout.
FairDrainSpec == DrainSpec /\ WF_vars(DrainerStep)

\* Addresses past the end of the UMEM, which spans the bytes below
\* UMEM_NUM_FRAMES * FRAME_SIZE.
StrayAddrs ==
    {UMEM_NUM_FRAMES * FRAME_SIZE, (UMEM_NUM_FRAMES + 1) * FRAME_SIZE}

\* The producer publishes a descriptor whose address lies outside the UMEM.
KernelPublishesStray ==
    /\ Len(produced) < MaxDesc
    /\ RxEntries < RING_SIZE
    /\ \E a \in StrayAddrs :
          LET desc == [addr |-> a, len |-> RxLen(rx_prod)] IN
          /\ rx_ring' = [rx_ring EXCEPT ![rx_prod % RING_SIZE] = desc]
          /\ produced' = Append(produced, desc)
    /\ rx_prod' = rx_prod + 1
    /\ UNCHANGED <<kcVars, sockVars, fq, rx_cons, drainVars, umemVars,
                   keep_running, pc>>
    /\ UNCHANGED <<loaderVars, hscVars>>

StrayDrainNext ==
    \/ KernelPublishesStray
    \/ SignalArrives
    \/ DrainerStep

\* StrayDrainSpec: process_packets against descriptors with such addresses.
StrayDrainSpec == DrainInit /\ [][StrayDrainNext]_vars

----------------------------------------------------------------------------
(* AllocSpec: the free-frame allocator under any sequence of calls *)

\* The frames passed to xsk_free_umem_frame: the frames of the pool, addresses
\* outside it, and INVALID_UMEM_FRAME.
FreeArgs == FrameAddrs \cup StrayAddrs \cup {INVALID_UMEM_FRAME}

\* A call of xsk_alloc_umem_frame(xsk_socket_info).
AllocFrame ==
    /\ LET u == xsk_alloc_umem_frame(umem_frame_addr, umem_frame_free) IN
          /\ umem_frame_addr' = u.addr
          /\ umem_frame_free' = u.free
          /\ last_call' = AllocCall(u)
    /\ UNCHANGED <<kcVars, sockVars, ringVars, drainVars, keep_running, pc>>
    /\ UNCHANGED <<loaderVars, hscVars>>

\* A call of xsk_free_umem_frame(xsk_socket_info, frame).
FreeFrame ==
    /\ \E frame \in FreeArgs :
          LET u == xsk_free_umem_frame(umem_frame_addr, umem_frame_free, frame)
          IN /\ umem_frame_addr' = u.addr
             /\ umem_frame_free' = u.free
             /\ last_call' = FreeCall(u, frame)
    /\ UNCHANGED <<kcVars, sockVars, ringVars, drainVars, keep_running, pc>>
    /\ UNCHANGED <<loaderVars, hscVars>>

AllocNext ==
    \/ AllocFrame
    \/ FreeFrame

\* The allocator as xsk_configure_socket initialises it.
AllocSpec == DrainInit /\ [][AllocNext]_vars

----------------------------------------------------------------------------
(* LoaderSpec: main(), load_xdp_program, xsk_configure_socket,              *)
(* cleanup_and_exit of af_xdp_loader.c.  Every library call either succeeds *)
(* or fails; events records what was acquired and released, in order.       *)

dataVars == <<kcVars, sockVars, ringVars, drainVars, umemVars, keep_running,
              hscVars>>

\* return EXIT_FAILURE from main, after the releases of the failing function.
MainReturnsFailure(released) ==
    /\ events' = events \o released
    /\ exit_code' = "EXIT_FAILURE"
    /\ pc' = "exited"

\* main returning EXIT_FAILURE when xsk_configure_socket fails, as it does when
\* load_xdp_program fails, instead of calling cleanup_and_exit.
ConfigureFails_returns(released) ==
    /\ events' = events \o released
    /\ exit_code' = "EXIT_FAILURE"
    /\ pc' = "exited"
    /\ UNCHANGED <<ifindex, bpf_obj, xsk_socket_info>>

\* xsk_configure_socket returned NULL after its own releases: main calls
\* cleanup_and_exit(EXIT_FAILURE) with xsk_socket_info still NULL.
ConfigureFails(released) ==
    /\ events' = events \o released
    /\ exit_code' = "EXIT_FAILURE"
    /\ pc' = "cleanup_and_exit"
    /\ UNCHANGED <<ifindex, bpf_obj, xsk_socket_info>>

\* main: config.ifindex = if_nametoindex(config.ifname); 0 is the failure.
Main_IfNametoindex ==
    /\ pc = "main"
    /\ \E idx \in {0, 1} :
          /\ ifindex' = idx
          /\ IF idx = 0
             THEN MainReturnsFailure(<<>>)
             ELSE /\ pc' = "bpf_object__open"
                  /\ UNCHANGED <<events, exit_code>>
    /\ UNCHANGED <<dataVars, bpf_obj, xsk_socket_info>>

\* load_xdp_program: bpf_obj = bpf_object__open(path).
Load_Open ==
    /\ pc = "bpf_object__open"
    /\ \E ok \in BOOLEAN :
          IF ok
          THEN /\ bpf_obj' = "open"
               /\ events' = Append(events, Acquire("bpf_obj"))
               /\ pc' = "bpf_object__load"
               /\ UNCHANGED exit_code
          ELSE /\ bpf_obj' = "error"
               /\ MainReturnsFailure(<<>>)
    /\ UNCHANGED <<dataVars, ifindex, xsk_socket_info>>

\* load_xdp_program: bpf_object__load, bpf_object__find_program_by_name and
\* bpf_program__fd; a failure of any closes the object and returns -1.
Load_LoadAndFindProgram ==
    /\ pc \in {"bpf_object__load", "find_program", "bpf_program__fd"}
    /\ \E ok \in BOOLEAN :
          IF ok
          THEN /\ pc' = CASE pc = "bpf_object__load" -> "find_program"
                          [] pc = "find_program" -> "bpf_program__fd"
                          [] OTHER -> "bpf_xdp_attach"
               /\ UNCHANGED <<bpf_obj, events, exit_code>>
          ELSE /\ bpf_obj' = "closed"
               /\ MainReturnsFailure(<<Free("bpf_obj")>>)
    /\ UNCHANGED <<dataVars, ifindex, xsk_socket_info>>

\* load_xdp_program: bpf_xdp_attach; a failure closes the object.
Load_Attach ==
    /\ pc = "bpf_xdp_attach"
    /\ \E ok \in BOOLEAN :
          IF ok
          THEN /\ events' = Append(events, Acquire("attach"))
               /\ pc' = "find_map"
               /\ UNCHANGED <<bpf_obj, exit_code>>
          ELSE /\ bpf_obj' = "closed"
               /\ MainReturnsFailure(<<Free("bpf_obj")>>)
    /\ UNCHANGED <<dataVars, ifindex, xsk_socket_info>>

\* The xsk_map failure path of load_xdp_program without its bpf_xdp_detach.
Load_FindMap_no_detach ==
    /\ pc = "find_map"
    /\ \E ok \in BOOLEAN :
          IF ok
          THEN /\ pc' = "calloc_xsk_info"
               /\ UNCHANGED <<bpf_obj, events, exit_code>>
          ELSE /\ bpf_obj' = "closed"
               /\ MainReturnsFailure(<<Free("bpf_obj")>>)
    /\ UNCHANGED <<dataVars, ifindex, xsk_socket_info>>

\* load_xdp_program: bpf_object__find_map_fd_by_name(bpf_obj, "xsk_map"); a
\* failure detaches the program, closes the object and returns -1.
Load_FindMap ==
    /\ pc = "find_map"
    /\ \E ok \in BOOLEAN :
          IF ok
          THEN /\ pc' = "calloc_xsk_info"
               /\ UNCHANGED <<bpf_obj, events, exit_code>>
          ELSE /\ bpf_obj' = "closed"
               /\ MainReturnsFailure(<<Free("attach"), Free("bpf_obj")>>)
    /\ UNCHANGED <<dataVars, ifindex, xsk_socket_info>>

\* xsk_configure_socket: calloc of xsk_info.
Cfg_AllocInfo ==
    /\ pc = "calloc_xsk_info"
    /\ \E ok \in BOOLEAN :
          IF ok
          THEN /\ events' = Append(events, Acquire("xsk_info"))
               /\ pc' = "calloc_umem_info"
               /\ UNCHANGED <<ifindex, bpf_obj, xsk_socket_info, exit_code>>
          ELSE ConfigureFails(<<>>)
    /\ UNCHANGED dataVars

\* xsk_configure_socket: calloc of umem.
Cfg_AllocUmemInfo ==
    /\ pc = "calloc_umem_info"
    /\ \E ok \in BOOLEAN :
          IF ok
          THEN /\ events' = Append(events, Acquire("umem_info"))
               /\ pc' = "aligned_alloc"
               /\ UNCHANGED <<ifindex, bpf_obj, xsk_socket_info, exit_code>>
          ELSE ConfigureFails(<<Free("xsk_info")>>)
    /\ UNCHANGED dataVars

\* xsk_configure_socket: aligned_alloc of the UMEM buffer.
Cfg_AllocBuffer ==
    /\ pc = "aligned_alloc"
    /\ \E ok \in BOOLEAN :
          IF ok
          THEN /\ events' = Append(events, Acquire("buffer"))
               /\ pc' = "xsk_umem__create"
               /\ UNCHANGED <<ifindex, bpf_obj, xsk_socket_info, exit_code>>
          ELSE ConfigureFails(<<Free("umem_info"), Free("xsk_info")>>)
    /\ UNCHANGED dataVars

\* xsk_configure_socket: xsk_umem__create; the fill ring it sets up is empty.
Cfg_UmemCreate ==
    /\ pc = "xsk_umem__create"
    /\ \E ok \in BOOLEAN :
          IF ok
          THEN /\ events' = Append(events, Acquire("umem"))
               /\ pc' = "xsk_socket__create"
               /\ UNCHANGED <<ifindex, bpf_obj, xsk_socket_info, exit_code>>
          ELSE ConfigureFails(<<Free("buffer"), Free("umem_info"),
                                Free("xsk_info")>>)
    /\ UNCHANGED dataVars

\* xsk_configure_socket: xsk_socket__create on config.queue_id.
Cfg_SocketCreate ==
    /\ pc = "xsk_socket__create"
    /\ \E ok \in BOOLEAN :
          IF ok
          THEN /\ events' = Append(events, Acquire("socket"))
               /\ pc' = "update_xskmap"
               /\ UNCHANGED <<ifindex, bpf_obj, xsk_socket_info, exit_code>>
          ELSE ConfigureFails(<<Free("umem"), Free("buffer"), Free("umem_info"),
                                Free("xsk_info")>>)
    /\ UNCHANGED dataVars

\* xsk_configure_socket: xsk_socket__update_xskmap, then the frame allocator
\* is initialised and main stores the result and enters process_packets.
Cfg_UpdateXskmap ==
    /\ pc = "update_xskmap"
    /\ \E ok \in BOOLEAN :
          IF ok
          THEN /\ xsk_map' = UpdateXskmap(config_queue_id)
               /\ umem_frame_addr' = InitFrameAllocator.addr
               /\ umem_frame_free' = InitFrameAllocator.free
               /\ UNCHANGED last_call
               /\ xsk_socket_info' = "configured"
               /\ pc' = "head"
               /\ UNCHANGED <<ifindex, bpf_obj, events, exit_code>>
          ELSE /\ ConfigureFails(<<Free("socket"), Free("umem"), Free("buffer"),
                                   Free("umem_info"), Free("xsk_info")>>)
               /\ UNCHANGED <<xsk_map, umemVars>>
    /\ UNCHANGED <<kcVars, config_queue_id, ringVars, drainVars, keep_running,
                   hscVars>>

\* main: process_packets returned, cleanup_and_exit(EXIT_SUCCESS).
Main_AfterDrain ==
    /\ pc = "returned"
    /\ pc' = "cleanup_and_exit"
    /\ exit_code' = "EXIT_SUCCESS"
    /\ UNCHANGED <<dataVars, ifindex, bpf_obj, xsk_socket_info, events>>

\* cleanup_and_exit: what it releases, in its order: the socket, the UMEM, the
\* buffer and the two structs when xsk_socket_info is set, the BPF object when
\* bpf_obj is set, and last the program when config.ifindex > 0.
CleanupReleases ==
    (IF xsk_socket_info # "NULL"
     THEN <<Free("socket"), Free("umem"), Free("buffer"), Free("umem_info"),
            Free("xsk_info")>>
     ELSE <<>>)
    \o (IF bpf_obj # "NULL" THEN <<Free("bpf_obj")>> ELSE <<>>)
    \o (IF ifindex > 0 THEN <<Free("attach")>> ELSE <<>>)

\* cleanup_and_exit(exit_code): the releases, then exit.
CleanupAndExit ==
    /\ pc = "cleanup_and_exit"
    /\ events' = events \o CleanupReleases
    /\ pc' = "exited"
    /\ UNCHANGED <<dataVars, ifindex, bpf_obj, xsk_socket_info, exit_code>>

\* The process before main installs anything: -q chose config.queue_id, no
\* socket is registered, the allocator's memory is not yet set up.
LoaderIdle ==
    /\ stats = [c \in CPUs |-> [k \in StatKeys |-> 0]]
    /\ arrived = 0
    /\ lastFrame = NoFrame
    /\ lastRet = "none"
    /\ lastIndex = NoIndex
    /\ offQueue = FALSE
    /\ config_queue_id \in Queues
    /\ xsk_map = [q \in Queues |-> FALSE]
    /\ fq = <<>>
    /\ rx_ring = EmptyRing
    /\ rx_prod = 0
    /\ rx_cons = 0
    /\ idx_rx = 0
    /\ rcvd = 0
    /\ i = 0
    /\ umem_frame_addr = [k \in FrameIndexes |-> 0]
    /\ umem_frame_free = 0
    /\ last_call = NoCall
    /\ keep_running = TRUE
    /\ pc = "main"
    /\ produced = <<>>
    /\ handled = <<>>
    /\ pollsAfter = 0
    /\ batchesAfter = 0
    /\ ifindex = 0
    /\ bpf_obj = "NULL"
    /\ xsk_socket_info = "NULL"
    /\ events = <<>>
    /\ exit_code = "running"

LoaderInit == LoaderIdle /\ HscIdle

LoaderNext ==
    \/ Main_IfNametoindex
    \/ Load_Open
    \/ Load_LoadAndFindProgram
    \/ Load_Attach
    \/ Load_FindMap
    \/ Cfg_AllocInfo
    \/ Cfg_AllocUmemInfo
    \/ Cfg_AllocBuffer
    \/ Cfg_UmemCreate
    \/ Cfg_SocketCreate
    \/ Cfg_UpdateXskmap
    \/ (SignalArrives /\ pc # "exited")
    \/ LoopHead
    \/ Poll
    \/ Main_AfterDrain
    \/ CleanupAndExit

LoaderSpec == LoaderInit /\ [][LoaderNext]_vars

----------------------------------------------------------------------------
(* HscSpec, HscWorkersSpec: ebpf_classify_init and ebpf_classify_node_fn of *)
(* src/vpp/plugins/ebpf_classify.c.  A thread runs the node on one frame;   *)
(* its steps are cut at the calls into the shared maps and at the loads and *)
(* stores of em->stats, where other threads can come in between.            *)

\* load_bpf_maps when the pin named `missing` does not exist ("none": all
\* three exist): the return value and the three descriptors afterwards.  A
\* descriptor that was opened and closed again stays in its field.
load_bpf_maps(e, missing) ==
    IF missing = "acl"
    THEN [ret |-> 0 - 1, em |-> [e EXCEPT !.acl_map_fd = "failed"]]
    ELSE IF missing = "stats"
    THEN [ret |-> 0 - 1,
          em |-> [e EXCEPT !.acl_map_fd = "closed", !.stats_map_fd = "failed"]]
    ELSE IF missing = "sessions"
    THEN [ret |-> 0 - 1,
          em |-> [e EXCEPT !.acl_map_fd = "closed", !.stats_map_fd = "closed",
                           !.session_map_fd = "failed"]]
    ELSE [ret |-> 0,
          em |-> [e EXCEPT !.acl_map_fd = "open", !.stats_map_fd = "open",
                           !.session_map_fd = "open"]]

\* ebpf_classify_init: the defaults, the statistics zeroed, load_bpf_maps, and
\* dual protection switched off when that fails.
ebpf_classify_init ==
    /\ ~hsc_ready
    /\ \E missing \in {"none", "acl", "stats", "sessions"} :
          LET defaults == [em EXCEPT !.dual_protection_enabled = TRUE,
                                     !.stateful_mode = TRUE,
                                     !.stats = [packets_processed |-> 0,
                                                packets_dropped |-> 0]]
              r == load_bpf_maps(defaults, missing)
          IN em' = IF r.ret < 0
                   THEN [r.em EXCEPT !.dual_protection_enabled = FALSE]
                   ELSE r.em
    /\ hsc_ready' = TRUE
    /\ UNCHANGED <<acl_v4, sessions, vpp_stats, now, worker, next_frames>>
    /\ UNCHANGED helloVars
    /\ UNCHANGED <<kcVars, sockVars, ringVars, drainVars, umemVars,
                   keep_running, pc, loaderVars>>

\* Buffers of the frames in progress that are still to be classified.
RECURSIVE BuffersLeft(_)
BuffersLeft(n) ==
    IF n = 0 THEN 0 ELSE worker[n - 1].n_left_from + BuffersLeft(n - 1)

\* A step of thread w that ends the loop body for a buffer has written the
\* buffer to a frame and enqueued it to next0; any other step leaves the
\* frames alone.
EnqueueAtBodyEnd(w) ==
    IF worker'[w].pc = "loop"
    THEN next_frames' = [next_frames EXCEPT ![w] =
             EnqueueBuffer(@, @.n_vectors - worker'[w].n_left_from,
                           worker'[w].next0)]
    ELSE UNCHANGED next_frames

\* ebpf_classify_node_fn is entered with a frame of n_vectors buffers, for
\* the first time or after it has returned from the frame before.
NodeEnter(w) ==
    /\ hsc_ready
    /\ worker[w].pc \in {"idle", "done"}
    /\ \E n_vectors \in 1 .. MaxVectors :
          /\ now + BuffersLeft(NumWorkers) + n_vectors <= MaxTime
          /\ worker' = [worker EXCEPT ![w] =
                          [IdleWorker EXCEPT !.pc = "loop",
                                             !.n_left_from = n_vectors]]
          /\ next_frames' = [next_frames EXCEPT ![w] =
                               [NoFrames EXCEPT !.n_vectors = n_vectors]]
    /\ UNCHANGED <<em, acl_v4, sessions, vpp_stats, now, hsc_ready>>
    /\ UNCHANGED helloVars
    /\ UNCHANGED <<kcVars, sockVars, ringVars, drainVars, umemVars,
                   keep_running, pc, loaderVars>>

\* The head of the inner loop leaving the frame at the first invalid buffer.
ClassifyBuffer_invalid_aborts(w, input) ==
    /\ worker[w].pc = "loop"
    /\ worker[w].n_left_from > 0
    /\ \E b \in input :
          LET wk == worker[w]
              taken == [wk EXCEPT !.n_left_from = @ - 1,
                                  !.prev = wk.b0,
                                  !.b0 = b,
                                  !.next0 = EBPF_CLASSIFY_NEXT_IP4_LOOKUP,
                                  !.error = NoError,
                                  !.key = NoKey,
                                  !.lookup_result = 0 - 1,
                                  !.rule = NoRuleValue,
                                  !.calls = {},
                                  !.counted = "none"]
          IN worker' = [worker EXCEPT ![w] =
                IF IsIp4(b)
                THEN IF HasIp4Header(b)
                     THEN [taken EXCEPT !.key = ExtractKey(b),
                                        !.pc = "lookup_acl_rule"]
                     ELSE [taken EXCEPT
                              !.next0 = EBPF_CLASSIFY_NEXT_DROP,
                              !.error = EBPF_CLASSIFY_ERROR_INVALID_PACKET,
                              !.n_invalid = @ + 1,
                              !.n_left_from = 0]
                ELSE taken]
    /\ now' = now + 1
    /\ UNCHANGED <<em, acl_v4, sessions, vpp_stats, hsc_ready>>
    /\ EnqueueAtBodyEnd(w)
    /\ UNCHANGED helloVars
    /\ UNCHANGED <<kcVars, sockVars, ringVars, drainVars, umemVars,
                   keep_running, pc, loaderVars>>

\* The head of the inner loop: the next buffer is taken with next0 =
\* IP4_LOOKUP; a buffer that is not IPv4 is enqueued as it is, an IPv4 buffer
\* too short for its headers is enqueued to DROP with INVALID_PACKET, any
\* other goes on to lookup_acl_rule.  The clock moves with every buffer.
ClassifyBuffer(w, input) ==
    /\ worker[w].pc = "loop"
    /\ worker[w].n_left_from > 0
    /\ \E b \in input :
          LET wk == worker[w]
              taken == [wk EXCEPT !.n_left_from = @ - 1,
                                  !.prev = wk.b0,
                                  !.b0 = b,
                                  !.next0 = EBPF_CLASSIFY_NEXT_IP4_LOOKUP,
                                  !.error = NoError,
                                  !.key = NoKey,
                                  !.lookup_result = 0 - 1,
                                  !.rule = NoRuleValue,
                                  !.calls = {},
                                  !.counted = "none"]
          IN worker' = [worker EXCEPT ![w] =
                IF IsIp4(b)
                THEN IF HasIp4Header(b)
                     THEN [taken EXCEPT !.key = ExtractKey(b),
                                        !.pc = "lookup_acl_rule"]
                     ELSE [taken EXCEPT
                              !.next0 = EBPF_CLASSIFY_NEXT_DROP,
                              !.error = EBPF_CLASSIFY_ERROR_INVALID_PACKET,
                              !.n_invalid = @ + 1]
                ELSE taken]
    /\ now' = now + 1
    /\ UNCHANGED <<em, acl_v4, sessions, vpp_stats, hsc_ready>>
    /\ EnqueueAtBodyEnd(w)
    /\ UNCHANGED helloVars
    /\ UNCHANGED <<kcVars, sockVars, ringVars, drainVars, umemVars,
                   keep_running, pc, loaderVars>>

\* lookup_acl_rule up to its read of the statistics entry: the lookup in the
\* ACL map, then the lookup of key 0 in the stats map.
LookupAclRule_Lookup(w) ==
    /\ worker[w].pc = "lookup_acl_rule"
    /\ LET wk == worker[w]
           r == bpf_map_lookup_elem(em.acl_map_fd, acl_v4, wk.key, NoRuleValue)
           s == bpf_map_lookup_elem(em.stats_map_fd, vpp_stats, 0, NoStats)
       IN worker' = [worker EXCEPT ![w] =
             [wk EXCEPT !.lookup_result = r.ret,
                        !.rule = r.value,
                        !.stats = s.value,
                        !.calls = @ \cup {"acl_lookup", "stats_lookup"},
                        !.pc = IF s.ret = 0 THEN "stats_update" ELSE "apply"]]
    /\ UNCHANGED <<em, acl_v4, sessions, vpp_stats, now, hsc_ready>>
    /\ UNCHANGED next_frames
    /\ UNCHANGED helloVars
    /\ UNCHANGED <<kcVars, sockVars, ringVars, drainVars, umemVars,
                   keep_running, pc, loaderVars>>

\* lookup_acl_rule, the rest: map_lookups++ and, on a hit, map_hits++ on the
\* copy that was read, and the copy written back.
LookupAclRule_Update(w) ==
    /\ worker[w].pc = "stats_update"
    /\ LET wk == worker[w]
           counted == [map_lookups |-> wk.stats.map_lookups + 1,
                       map_hits |-> IF wk.lookup_result = 0
                                    THEN wk.stats.map_hits + 1
                                    ELSE wk.stats.map_hits]
       IN /\ vpp_stats' = bpf_map_update_elem(em.stats_map_fd, vpp_stats, 0,
                                              counted)
          /\ worker' = [worker EXCEPT ![w] =
                [wk EXCEPT !.stats = NoStats,
                           !.calls = @ \cup {"stats_update"},
                           !.pc = "apply"]]
    /\ UNCHANGED <<em, acl_v4, sessions, now, hsc_ready>>
    /\ UNCHANGED next_frames
    /\ UNCHANGED helloVars
    /\ UNCHANGED <<kcVars, sockVars, ringVars, drainVars, umemVars,
                   keep_running, pc, loaderVars>>

\* The DROP branch counting the buffer as processed as well.
ApplyAction_drop_counts_processed(w) ==
    /\ worker[w].pc = "apply"
    /\ LET wk == worker[w] IN
       worker' = [worker EXCEPT ![w] =
          IF wk.lookup_result = 0
          THEN IF wk.rule.action = ACL_ACTION_DROP
               THEN [wk EXCEPT !.next0 = EBPF_CLASSIFY_NEXT_DROP,
                               !.pkts_dropped = @ + 1,
                               !.pkts_processed = @ + 1,
                               !.error = EBPF_CLASSIFY_ERROR_DROPPED,
                               !.counted = "dropped",
                               !.pc = "loop"]
               ELSE IF wk.rule.action = ACL_ACTION_ALLOW
               THEN IF ~em.stateful_mode
                    THEN [wk EXCEPT !.pkts_processed = @ + 1,
                                    !.counted = "processed",
                                    !.pc = "loop"]
                    ELSE LET r == bpf_map_lookup_elem(em.session_map_fd,
                                     sessions, wk.key, NoSession)
                         IN [wk EXCEPT
                               !.session =
                                   IF r.ret = 0
                                   THEN TouchSession(r.value, wk.b0.len, now)
                                   ELSE NewSession(wk.key, wk.b0.len, now),
                               !.calls = @ \cup {"session_lookup"},
                               !.pc = "update_session"]
               ELSE [wk EXCEPT !.pc = "loop"]
          ELSE [wk EXCEPT !.pkts_processed = @ + 1,
                          !.error = EBPF_CLASSIFY_ERROR_PROCESSED,
                          !.counted = "processed",
                          !.pc = "loop"]]
    /\ UNCHANGED <<em, acl_v4, sessions, vpp_stats, now, hsc_ready>>
    /\ EnqueueAtBodyEnd(w)
    /\ UNCHANGED helloVars
    /\ UNCHANGED <<kcVars, sockVars, ringVars, drainVars, umemVars,
                   keep_running, pc, loaderVars>>

\* The action applied to the buffer and the buffer enqueued to next0.  A rule
\* with action 0 drops; a rule with action 1 calls update_session, which
\* returns at once without stateful mode and else looks the session up and
\* prepares the entry to write; any other action does nothing; a miss counts
\* the buffer as processed.
ApplyAction(w) ==
    /\ worker[w].pc = "apply"
    /\ LET wk == worker[w] IN
       worker' = [worker EXCEPT ![w] =
          IF wk.lookup_result = 0
          THEN IF wk.rule.action = ACL_ACTION_DROP
               THEN [wk EXCEPT !.next0 = EBPF_CLASSIFY_NEXT_DROP,
                               !.pkts_dropped = @ + 1,
                               !.error = EBPF_CLASSIFY_ERROR_DROPPED,
                               !.counted = "dropped",
                               !.pc = "loop"]
               ELSE IF wk.rule.action = ACL_ACTION_ALLOW
               THEN IF ~em.stateful_mode
                    THEN [wk EXCEPT !.pkts_processed = @ + 1,
                                    !.counted = "processed",
                                    !.pc = "loop"]
                    ELSE LET r == bpf_map_lookup_elem(em.session_map_fd,
                                     sessions, wk.key, NoSession)
                         IN [wk EXCEPT
                               !.session =
                                   IF r.ret = 0
                                   THEN TouchSession(r.value, wk.b0.len, now)
                                   ELSE NewSession(wk.key, wk.b0.len, now),
                               !.calls = @ \cup {"session_lookup"},
                               !.pc = "update_session"]
               ELSE [wk EXCEPT !.pc = "loop"]
          ELSE [wk EXCEPT !.pkts_processed = @ + 1,
                          !.error = EBPF_CLASSIFY_ERROR_PROCESSED,
                          !.counted = "processed",
                          !.pc = "loop"]]
    /\ UNCHANGED <<em, acl_v4, sessions, vpp_stats, now, hsc_ready>>
    /\ EnqueueAtBodyEnd(w)
    /\ UNCHANGED helloVars
    /\ UNCHANGED <<kcVars, sockVars, ringVars, drainVars, umemVars,
                   keep_running, pc, loaderVars>>

\* update_session, the write of the entry under the key, then pkts_processed++
\* and the buffer is enqueued.
UpdateSession_Update(w) ==
    /\ worker[w].pc = "update_session"
    /\ LET wk == worker[w] IN
       /\ sessions' = bpf_map_update_elem_sessions(em.session_map_fd, sessions,
                                                   wk.key, wk.session)
       /\ worker' = [worker EXCEPT ![w] =
             [wk EXCEPT !.session = NoSession,
                        !.calls = @ \cup {"session_update"},
                        !.pkts_processed = @ + 1,
                        !.counted = "processed",
                        !.pc = "loop"]]
    /\ UNCHANGED <<em, acl_v4, vpp_stats, now, hsc_ready>>
    /\ EnqueueAtBodyEnd(w)
    /\ UNCHANGED helloVars
    /\ UNCHANGED <<kcVars, sockVars, ringVars, drainVars, umemVars,
                   keep_running, pc, loaderVars>>

\* After the loops, where the locals of the loop body are gone,
\* em->stats.packets_processed += pkts_processed and then
\* em->stats.packets_dropped += pkts_dropped: each is a load of the field ...
StatsLoad(w) ==
    /\ \/ worker[w].pc = "loop" /\ worker[w].n_left_from = 0
       \/ worker[w].pc = "load_dropped"
    /\ worker' = [worker EXCEPT ![w] =
          IF worker[w].pc = "loop"
          THEN [IdleWorker EXCEPT !.n_left_from = worker[w].n_left_from,
                                  !.pkts_processed = worker[w].pkts_processed,
                                  !.pkts_dropped = worker[w].pkts_dropped,
                                  !.n_invalid = worker[w].n_invalid,
                                  !.loaded = em.stats.packets_processed,
                                  !.pc = "store_processed"]
          ELSE [worker[w] EXCEPT !.loaded = em.stats.packets_dropped,
                                 !.pc = "store_dropped"]]
    /\ UNCHANGED <<em, acl_v4, sessions, vpp_stats, now, hsc_ready>>
    /\ UNCHANGED next_frames
    /\ UNCHANGED helloVars
    /\ UNCHANGED <<kcVars, sockVars, ringVars, drainVars, umemVars,
                   keep_running, pc, loaderVars>>

\* ... and a store of the sum; after the second the node returns.
StatsStore(w) ==
    /\ worker[w].pc \in {"store_processed", "store_dropped"}
    /\ LET wk == worker[w] IN
       IF wk.pc = "store_processed"
       THEN /\ em' = [em EXCEPT !.stats.packets_processed =
                                    wk.loaded + wk.pkts_processed]
            /\ worker' = [worker EXCEPT ![w] =
                  [wk EXCEPT !.loaded = 0, !.pc = "load_dropped"]]
       ELSE /\ em' = [em EXCEPT !.stats.packets_dropped =
                                    wk.loaded + wk.pkts_dropped]
            /\ worker' = [worker EXCEPT ![w] =
                  [wk EXCEPT !.loaded = 0, !.pc = "done"]]
    /\ UNCHANGED <<acl_v4, sessions, vpp_stats, now, hsc_ready>>
    /\ next_frames' = [next_frames EXCEPT ![w].ret =
                          IF worker[w].pc = "store_dropped"
                          THEN next_frames[w].n_vectors ELSE @]
    /\ UNCHANGED helloVars
    /\ UNCHANGED <<kcVars, sockVars, ringVars, drainVars, umemVars,
                   keep_running, pc, loaderVars>>

\* The packet plane is not started; the plugin is loaded and not initialised;
\* the control plane has installed some ACL table.
HscInit ==
    /\ LoaderIdle
    /\ config_queue_id = 0
    /\ em = EmZero
    /\ acl_v4 \in AclTables
    /\ sessions = EmptyMap
    /\ vpp_stats = [k \in {0} |-> NoStats]
    /\ now = 0
    /\ worker = [w \in Workers |-> IdleWorker]
    /\ next_frames = [w \in Workers |-> NoFrames]
    /\ HelloAclIdle
    /\ hsc_ready = FALSE

\* The node runs on the main thread only.
HscNext ==
    \/ ebpf_classify_init
    \/ NodeEnter(MainThread)
    \/ ClassifyBuffer(MainThread, Buffers)
    \/ LookupAclRule_Lookup(MainThread)
    \/ LookupAclRule_Update(MainThread)
    \/ ApplyAction(MainThread)
    \/ UpdateSession_Update(MainThread)
    \/ StatsLoad(MainThread)
    \/ StatsStore(MainThread)

HscSpec == HscInit /\ [][HscNext]_vars

\* The buffers a thread of HscWorkersSpec receives: every thread those of the
\* forward direction, on whose row the threads race, and the main thread
\* those of the reverse direction as well, whose row lies beside it.
WorkerInput(w) ==
    IF w = MainThread
    THEN WorkerBuffers
    ELSE {FlowAB(ETHERNET_TYPE_IP4, HSC_LEN_PORTS, IP_PROTOCOL_TCP)}

\* The node runs on every worker thread.
HscWorkersNext ==
    \/ ebpf_classify_init
    \/ \E w \in Workers : NodeEnter(w)
    \/ \E w \in Workers : ClassifyBuffer(w, WorkerInput(w))
    \/ \E w \in Workers : LookupAclRule_Lookup(w)
    \/ \E w \in Workers : LookupAclRule_Update(w)
    \/ \E w \in Workers : ApplyAction(w)
    \/ \E w \in Workers : UpdateSession_Update(w)
    \/ \E w \in Workers : StatsLoad(w)
    \/ \E w \in Workers : StatsStore(w)

\* The workers meet in the session map only on buffers that an ALLOW rule
\* admits: the ACL table allows both directions, or holds no rule at all.
HscWorkersInit ==
    /\ HscInit
    /\ acl_v4 \in {AclTable(ACL_ACTION_ALLOW, ACL_ACTION_ALLOW),
                   AclTable(NoRule, NoRule)}

HscWorkersSpec == HscWorkersInit /\ [][HscWorkersNext]_vars

\* update_session taken with its configuration as an input: the plugin is
\* initialised with its three maps open, and em->stateful_mode, which
\* ebpf_classify_init sets and update_session reads, holds either value.
HscModeInit ==
    /\ LoaderIdle
    /\ config_queue_id = 0
    /\ \E mode \in BOOLEAN :
          em = load_bpf_maps([EmZero EXCEPT !.dual_protection_enabled = TRUE,
                                            !.stateful_mode = mode],
                             "none").em
    /\ acl_v4 \in AclTables
    /\ sessions = EmptyMap
    /\ vpp_stats = [k \in {0} |-> NoStats]
    /\ now = 0
    /\ worker = [w \in Workers |-> IdleWorker]
    /\ next_frames = [w \in Workers |-> NoFrames]
    /\ HelloAclIdle
    /\ hsc_ready = TRUE

\* The node on the main thread of the initialised plugin.
HscModeNext ==
    \/ NodeEnter(MainThread)
    \/ ClassifyBuffer(MainThread, Buffers)
    \/ LookupAclRule_Lookup(MainThread)
    \/ LookupAclRule_Update(MainThread)
    \/ ApplyAction(MainThread)
    \/ UpdateSession_Update(MainThread)
    \/ StatsLoad(MainThread)
    \/ StatsStore(MainThread)

HscModeSpec == HscModeInit /\ [][HscModeNext]_vars

----------------------------------------------------------------------------
(* The hello-acl node and its command, src/vpp/plugins/hello_acl.c *)

\* vec_validate_init_empty(v, x, init): the vector made long enough to hold
\* index x, the new elements set to init.
vec_validate_init_empty(v, x, init) ==
    IF Len(v) > x THEN v
    ELSE v \o [k \in 1 .. (x + 1 - Len(v)) |-> init]

\* The command writing the flag one element too far.
hello_acl_set_enabled_off_by_one(is_enabled, sw_if_index, enable_disable) ==
    [vec_validate_init_empty(is_enabled, sw_if_index + 1, 0)
        EXCEPT ![sw_if_index + 2] = enable_disable % 256]

\* hello_acl_enable_disable_command_fn, what it does to is_enabled: the
\* vector is extended with zeroes up to sw_if_index and the u8 element of
\* the interface is set to enable_disable.
hello_acl_set_enabled(is_enabled, sw_if_index, enable_disable) ==
    [vec_validate_init_empty(is_enabled, sw_if_index, 0)
        EXCEPT ![sw_if_index + 1] = enable_disable % 256]

\* The check reading is_enabled[sw_if_index0] without looking at the length
\* of the vector: beyond its end the element read is whatever lies there.
is_enabled_check_unbounded(is_enabled, sw_if_index0) ==
    IF Len(is_enabled) <= sw_if_index0
    THEN {[skip |-> x, read |-> {sw_if_index0}] : x \in BOOLEAN}
    ELSE {[skip |-> is_enabled[sw_if_index0 + 1] = 0,
           read |-> {sw_if_index0}]}

\* The check whether the interface is enabled, with the outcomes it can
\* have: vec_len(hm->is_enabled) <= sw_if_index0 decides alone when it holds,
\* and only else the element is read.
is_enabled_check(is_enabled, sw_if_index0) ==
    IF Len(is_enabled) <= sw_if_index0
    THEN {[skip |-> TRUE, read |-> {}]}
    ELSE {[skip |-> is_enabled[sw_if_index0 + 1] = 0,
           read |-> {sw_if_index0}]}

\* The packets the node logs: ICMP, and TCP to port 22, 80 or 443.
IsInteresting(b) ==
    \/ b.protocol = IP_PROTOCOL_ICMP
    \/ /\ b.protocol = IP_PROTOCOL_TCP
       /\ clib_net_to_host_u16(b.dst_port) \in LoggedTcpPorts

\* The command "hello-acl <interface> [disable]", run on the main thread
\* between two calls of the node: without an interface it returns an error
\* and changes nothing.
HelloAclCommand ==
    /\ hello.pc \in {"idle", "done"}
    /\ \E sw_if_index \in SwIfIndexes \cup {SW_IF_INDEX_NONE},
          enable_disable \in {0, 1} :
          hm' = IF sw_if_index = SW_IF_INDEX_NONE
                THEN hm
                ELSE [hm EXCEPT !.is_enabled =
                         hello_acl_set_enabled(@, sw_if_index, enable_disable)]
    /\ UNCHANGED hello
    /\ UNCHANGED <<em, acl_v4, sessions, vpp_stats, now, worker, next_frames,
                   hsc_ready>>
    /\ UNCHANGED <<kcVars, sockVars, ringVars, drainVars, umemVars,
                   keep_running, pc, loaderVars>>

\* hello_acl_inline is entered with a frame of n_vectors packets.
HelloNodeEnter ==
    /\ hello.pc \in {"idle", "done"}
    /\ \E n_vectors \in 1 .. MaxVectors :
          /\ hm.packets_processed + n_vectors <= MaxTime
          /\ hello' = [HelloIdleLocals EXCEPT
                          !.pc = "loop",
                          !.n_left_from = n_vectors,
                          !.frames = [HelloNoFrames EXCEPT
                                         !.n_vectors = n_vectors]]
    /\ UNCHANGED hm
    /\ UNCHANGED <<em, acl_v4, sessions, vpp_stats, now, worker, next_frames,
                   hsc_ready>>
    /\ UNCHANGED <<kcVars, sockVars, ringVars, drainVars, umemVars,
                   keep_running, pc, loaderVars>>

\* The head of the loop body: the next buffer of the frame, its receive
\* interface, and the check whether that interface is enabled.
HelloTakeBuffer ==
    /\ hello.pc = "loop"
    /\ hello.n_left_from > 0
    /\ \E b \in HelloPackets :
          \E c \in is_enabled_check(hm.is_enabled, b.sw_if_index) :
              hello' = [hello EXCEPT
                           !.n_left_from = @ - 1,
                           !.b0 = b,
                           !.next0 = HELLO_ACL_NEXT_INTERFACE_OUTPUT,
                           !.read = c.read,
                           !.inspected = FALSE,
                           !.logged = FALSE,
                           !.pc = IF c.skip THEN "skip_processing"
                                            ELSE "inspect"]
    /\ UNCHANGED hm
    /\ UNCHANGED <<em, acl_v4, sessions, vpp_stats, now, worker, next_frames,
                   hsc_ready>>
    /\ UNCHANGED <<kcVars, sockVars, ringVars, drainVars, umemVars,
                   keep_running, pc, loaderVars>>

\* The packet of an enabled interface: its IPv4 header is read, and when the
\* header is the plain one and the packet is interesting, it is logged.
HelloInspect ==
    /\ hello.pc = "inspect"
    /\ LET b == hello.b0
           log == /\ b.ip_version_and_header_length
                        = IP4_VERSION_AND_HEADER_LENGTH
                  /\ IsInteresting(b)
       IN hello' = [hello EXCEPT
                       !.inspected = TRUE,
                       !.logged = log,
                       !.pkts_logged = IF log THEN @ + 1 ELSE @,
                       !.pc = "skip_processing"]
    /\ UNCHANGED hm
    /\ UNCHANGED <<em, acl_v4, sessions, vpp_stats, now, worker, next_frames,
                   hsc_ready>>
    /\ UNCHANGED <<kcVars, sockVars, ringVars, drainVars, umemVars,
                   keep_running, pc, loaderVars>>

\* skip_processing: the packet is counted and enqueued to next0.
HelloSkipProcessing ==
    /\ hello.pc = "skip_processing"
    /\ hello' = [hello EXCEPT
                    !.pkts_processed = @ + 1,
                    !.pkts_allowed = @ + 1,
                    !.frames = EnqueueBuffer(@, @.n_vectors
                                                  - hello.n_left_from,
                                             hello.next0),
                    !.pc = "loop"]
    /\ UNCHANGED hm
    /\ UNCHANGED <<em, acl_v4, sessions, vpp_stats, now, worker, next_frames,
                   hsc_ready>>
    /\ UNCHANGED <<kcVars, sockVars, ringVars, drainVars, umemVars,
                   keep_running, pc, loaderVars>>

\* After the loops the counts of the frame are added to hello_acl_main and
\* the node returns frame->n_vectors; the locals of the loop are gone.
HelloReturn ==
    /\ hello.pc = "loop"
    /\ hello.n_left_from = 0
    /\ hm' = [hm EXCEPT
                 !.packets_processed = @ + hello.pkts_processed,
                 !.packets_allowed = @ + hello.pkts_allowed,
                 !.packets_logged = @ + hello.pkts_logged]
    /\ hello' = [HelloIdleLocals EXCEPT
                    !.pc = "done",
                    !.frames = [hello.frames EXCEPT
                                   !.ret = hello.frames.n_vectors]]
    /\ UNCHANGED <<em, acl_v4, sessions, vpp_stats, now, worker, next_frames,
                   hsc_ready>>
    /\ UNCHANGED <<kcVars, sockVars, ringVars, drainVars, umemVars,
                   keep_running, pc, loaderVars>>

HelloAclInit == LoaderIdle /\ config_queue_id = 0 /\ HscIdle

HelloAclNext ==
    \/ HelloAclCommand
    \/ HelloNodeEnter
    \/ HelloTakeBuffer
    \/ HelloInspect
    \/ HelloSkipProcessing
    \/ HelloReturn

HelloAclSpec == HelloAclInit /\ [][HelloAclNext]_vars

----------------------------------------------------------------------------
(* Claims about the kernel classifier and the data plane (Spec) *)

\* C1: for every frame handled by xdp_firewall, whatever its length,
\* ethertype and protocol, exactly one of the four counters PASS, DROP,
\* REDIRECT, ERROR (summed over the CPUs) grows by exactly 1 and the other
\* three keep their value.
C1_ExactlyOneCounter ==
    [][arrived' # arrived =>
        \E k \in StatKeys :
            /\ StatTotal(stats', k) = StatTotal(stats, k) + 1
            /\ \A j \in StatKeys \ {k} :
                  StatTotal(stats', j) = StatTotal(stats, j)]_vars

\* Two frames were classified, one counted as ERROR and one as REDIRECT.
C1_Witness ==
    /\ arrived = 2
    /\ StatTotal(stats, STAT_ERROR) = 1
    /\ StatTotal(stats, STAT_REDIRECT) = 1

\* The ethertype on the wire: the loaded h_proto through ntohs (the same byte
\* swap as htons).
EtherType(ctx) == bpf_htons(ctx.h_proto)

\* The verdict as the claim orders it.
ClaimedVerdict(ctx) ==
    CASE ctx.len < ETH_HLEN -> "XDP_ABORTED"
      [] ctx.len >= ETH_HLEN /\ EtherType(ctx) # ETH_P_IP -> "XDP_PASS"
      [] ctx.len >= ETH_HLEN /\ EtherType(ctx) = ETH_P_IP
           /\ ctx.len < ETH_HLEN + IP_HLEN -> "XDP_ABORTED"
      [] ctx.len >= ETH_HLEN + IP_HLEN /\ EtherType(ctx) = ETH_P_IP
           /\ ctx.protocol = IPPROTO_ICMP -> "XDP_DROP"
      [] ctx.len >= ETH_HLEN + IP_HLEN /\ EtherType(ctx) = ETH_P_IP
           /\ ctx.protocol = IPPROTO_TCP -> "XDP_REDIRECT"
      [] OTHER -> "XDP_PASS"

\* C2: the verdict of xdp_firewall depends on the frame alone and is decided
\* in this order: ABORTED when shorter than an Ethernet header, PASS when the
\* ethertype is not IPv4, ABORTED when the IPv4 header is truncated, DROP for
\* ICMP, REDIRECT for TCP, PASS otherwise.
C2_VerdictOrder ==
    arrived > 0 => lastRet = ClaimedVerdict(lastFrame)

\* An ARP frame too short to hold an IPv4 header was passed.
C2_Witness ==
    /\ arrived > 0
    /\ EtherType(lastFrame) = ETH_P_ARP
    /\ lastFrame.len >= ETH_HLEN
    /\ lastFrame.len < ETH_HLEN + IP_HLEN
    /\ lastRet = "XDP_PASS"

\* C3: a TCP/IPv4 frame that arrives on receive queue q is redirected to
\* xsk_map[q], the frame's own rx_queue_index, for every q.
C3_RedirectToOwnQueue ==
    lastRet = "XDP_REDIRECT" => lastIndex = lastFrame.rx_queue_index

\* C4: while the drainer is attached and running, every frame counted in
\* REDIRECT reaches the drainer: it has been handled or it waits in the RX
\* ring (all frames having arrived on the socket's own queue).
C4_RedirectedFramesReachDrainer ==
    (pc # "returned" /\ ~offQueue) =>
        StatTotal(stats, STAT_REDIRECT) = Len(handled) + RxEntries

\* Where the frames of the UMEM pool are.
FreeListCount(a) ==
    Cardinality({k \in 0 .. umem_frame_free - 1 : umem_frame_addr[k] = a})
FillRingCount(a) ==
    Cardinality({k \in 1 .. Len(fq) : fq[k] = a})
RxFirstPending == IF pc \in {"handle", "release"} THEN idx_rx ELSE rx_cons
RxRingCount(a) ==
    Cardinality({n \in RxFirstPending .. rx_prod - 1 :
                    rx_ring[n % RING_SIZE].addr = a})

\* C5: in every reachable state each frame address of the pool is in exactly
\* one location (free list, fill ring, RX ring; the kernel and the handler
\* hold a frame only inside one step), so the locations together hold
\* UMEM_NUM_FRAMES frames.
C5_FrameInOneLocation ==
    /\ umem_frame_free \in 0 .. UMEM_NUM_FRAMES
    /\ \A a \in FrameAddrs :
          FreeListCount(a) + FillRingCount(a) + RxRingCount(a) = 1
    /\ umem_frame_free + Len(fq) + (rx_prod - RxFirstPending) = UMEM_NUM_FRAMES

\* The drainer polls after a TCP frame was redirected on the socket's queue.
C5_Witness ==
    /\ pc = "poll"
    /\ lastRet = "XDP_REDIRECT"
    /\ lastFrame.rx_queue_index = config_queue_id
    /\ lastIndex = config_queue_id
    /\ umem_frame_free = UMEM_NUM_FRAMES

IsIcmpFrame(ctx) ==
    /\ ctx.len >= ETH_HLEN + IP_HLEN
    /\ EtherType(ctx) = ETH_P_IP
    /\ ctx.protocol = IPPROTO_ICMP

\* C6: an RX descriptor is produced only for a frame whose verdict is
\* REDIRECT; each IPv4 ICMP frame is dropped, adds 1 to DROP, leaves REDIRECT
\* as it was and enqueues nothing on any ring.
C6_DropNeverEnqueues ==
    [][/\ (arrived' # arrived /\ IsIcmpFrame(lastFrame')) =>
            /\ lastRet' = "XDP_DROP"
            /\ lastIndex' = NoIndex
            /\ StatTotal(stats', STAT_DROP) = StatTotal(stats, STAT_DROP) + 1
            /\ StatTotal(stats', STAT_REDIRECT) = StatTotal(stats, STAT_REDIRECT)
            /\ UNCHANGED ringVars
       /\ (rx_prod' # rx_prod \/ produced' # produced) =>
            (arrived' # arrived /\ lastRet' = "XDP_REDIRECT")]_vars

\* A stream of two ICMP frames: DROP is 2, REDIRECT 0, the RX ring untouched.
C6_Witness ==
    /\ arrived = 2
    /\ IsIcmpFrame(lastFrame)
    /\ StatTotal(stats, STAT_DROP) = 2
    /\ StatTotal(stats, STAT_REDIRECT) = 0
    /\ rx_prod = 0

----------------------------------------------------------------------------
(* Claims about the drain loop (DrainSpec, FairDrainSpec) *)

\* C7: the drainer handles the RX descriptors in ring-index order, within a
\* batch and across batches of at most RX_BATCH_SIZE, each produced descriptor
\* once: the j-th descriptor handled is the one at ring index j - 1, with the
\* address and length published there, and between batches the consumer cursor
\* equals the number handled.
C7_DrainInRingOrder ==
    /\ Len(handled) <= Len(produced)
    /\ \A j \in 1 .. Len(handled) :
          /\ handled[j].idx = j - 1
          /\ handled[j].addr = produced[j].addr
          /\ handled[j].len = produced[j].len
    /\ rcvd <= RX_BATCH_SIZE
    /\ pc \in {"head", "poll", "returned"} => rx_cons = Len(handled)

\* Every published descriptor was handled, the ring index wrapped, and the
\* last batch was a full one.
C7_Witness ==
    /\ Len(handled) = MaxDesc
    /\ Len(handled) > RING_SIZE
    /\ rcvd = RX_BATCH_SIZE
    /\ pc = "head"

\* C8: once keep_running is false process_packets returns, after at most one
\* more poll and at most one more batch, and having returned it starts nothing.
C8_CancellationStopsDrain ==
    /\ (~keep_running) ~> (pc = "returned")
    /\ [](pollsAfter <= 1 /\ batchesAfter <= 1)
    /\ [][pc = "returned" => pc' = "returned"]_vars

\* The flag was cleared before a poll that reported POLLIN: one poll, one
\* batch, then the return.
C8_Witness ==
    /\ pc = "returned"
    /\ ~keep_running
    /\ pollsAfter = 1
    /\ batchesAfter = 1

----------------------------------------------------------------------------
(* Claims about the life cycle of the loader (LoaderSpec) *)

RECURSIVE Reverse(_)
Reverse(seq) ==
    IF seq = <<>> THEN <<>> ELSE Append(Reverse(Tail(seq)), Head(seq))

RECURSIVE Names(_)
Names(seq) ==
    IF seq = <<>> THEN <<>> ELSE <<Head(seq).res>> \o Names(Tail(seq))

\* The resources the claim orders: the BPF object, the attachment of the
\* program, the UMEM buffer, the UMEM, the socket.
OrderedResources == {"bpf_obj", "attach", "buffer", "umem", "socket"}
IsAcquire(e) == e.op = "acquire" /\ e.res \in OrderedResources
IsRelease(e) == e.op = "release" /\ e.res \in OrderedResources
AcquiredInOrder == Names(SelectSeq(events, IsAcquire))
ReleasedInOrder == Names(SelectSeq(events, IsRelease))

\* C9: on every exit path the resources acquired so far are released in the
\* exact reverse of their acquisition order (BPF object, attachment, UMEM
\* buffer, UMEM, socket): the program is detached before the object is closed.
C9_ReleaseInReverseOrder ==
    pc = "exited" => ReleasedInOrder = Reverse(AcquiredInOrder)

IsDetach(e) == e = Free("attach")
IsAttach(e) == e = Acquire("attach")
Detaches == Len(SelectSeq(events, IsDetach))
Attached == Len(SelectSeq(events, IsAttach)) > 0

\* C10: on every run in which bpf_xdp_attach succeeded, bpf_xdp_detach is
\* invoked exactly once before the process exits, whichever path leads there;
\* it is never invoked twice and never without the attachment.
C10_DetachExactlyOnce ==
    /\ Detaches <= 1
    /\ Detaches = 1 => Attached
    /\ (pc = "exited" /\ Attached) => Detaches = 1

\* The loader was cancelled by a signal and exited with the program detached.
C10_Witness ==
    /\ pc = "exited"
    /\ exit_code = "EXIT_SUCCESS"
    /\ ~keep_running
    /\ Attached
    /\ Detaches = 1

\* The resources the loader owns besides the attachment: the BPF object, the
\* UMEM buffer, the UMEM, the socket and the two info structs.
StartupResources ==
    {"bpf_obj", "buffer", "umem", "socket", "umem_info", "xsk_info"}
Acquisitions(res) ==
    Cardinality({k \in 1 .. Len(events) : events[k] = Acquire(res)})
Releases(res) ==
    Cardinality({k \in 1 .. Len(events) : events[k] = Free(res)})

\* The process is gone and main never got a socket to drain: startup failed.
StartupFailed == pc = "exited" /\ xsk_socket_info = "NULL"

\* C11: at every startup failure point (interface lookup, BPF open, load,
\* program lookup, attach, map lookup, the allocations, UMEM creation, socket
\* creation, xskmap update) the process exits with a non-zero status and each
\* resource acquired before the failure (BPF object, UMEM buffer, UMEM, socket,
\* the two info structs) has been released exactly once; at no time has a
\* resource been released more often than acquired.
C11_StartupFailureReleasesAll ==
    /\ \A res \in StartupResources :
          /\ Acquisitions(res) <= 1
          /\ Releases(res) <= Acquisitions(res)
    /\ StartupFailed =>
          /\ exit_code = "EXIT_FAILURE"
          /\ \A res \in StartupResources : Releases(res) = Acquisitions(res)

\* xsk_socket__update_xskmap failed: everything up to the socket had been
\* acquired, and the process exited with all of it released.
C11_Witness ==
    /\ StartupFailed
    /\ exit_code = "EXIT_FAILURE"
    /\ \A res \in StartupResources :
          Acquisitions(res) = 1 /\ Releases(res) = 1

----------------------------------------------------------------------------
(* Claims about the host-stack classifier (HscSpec, HscWorkersSpec) *)

\* Thread w has enqueued its current buffer b0 to next0 and is back at the
\* head of the loop.
Enqueued(w) == worker[w].pc = "loop" /\ worker[w].b0 # NoBuffer

IsValidIp4(b) == IsIp4(b) /\ HasIp4Header(b)

\* C12: every buffer whose ethertype is not IPv4 is dispatched to
\* ETHERNET_INPUT, never to IP4_LOOKUP or DROP, and no map call (ACL lookup,
\* session update) is made for it.
C12_NonIp4ToEthernetInput ==
    \A w \in Workers :
        (Enqueued(w) /\ ~IsIp4(worker[w].b0)) =>
            /\ worker[w].next0 = EBPF_CLASSIFY_NEXT_ETHERNET_INPUT
            /\ worker[w].calls = {}

\* C13: with the maps open, stateful mode on and no rule matching, after two
\* TCP buffers with the same 5-tuple the session map holds exactly one row for
\* that 5-tuple, its bytes_rx is the sum of the two lengths and its last_seen
\* the time of the second buffer.
C13_MissTracksSession ==
    \A w \in Workers :
        LET wk == worker[w] IN
        (/\ Enqueued(w)
         /\ now = 2
         /\ em.dual_protection_enabled
         /\ em.stateful_mode
         /\ IsValidIp4(wk.prev) /\ IsValidIp4(wk.b0)
         /\ wk.b0.protocol = IP_PROTOCOL_TCP
         /\ ExtractKey(wk.prev) = ExtractKey(wk.b0)
         /\ wk.lookup_result # 0)
        => /\ DOMAIN sessions = {wk.key}
           /\ sessions[wk.key].bytes_rx = wk.prev.len + wk.b0.len
           /\ sessions[wk.key].last_seen = now

\* C14: a buffer that matches a rule with action LOG is handled like one that
\* matches an ALLOW rule: it is forwarded, update_session is called for its
\* 5-tuple and pkts_processed is incremented.
C14_LogHandledAsAllow ==
    \A w \in Workers :
        LET wk == worker[w] IN
        (Enqueued(w) /\ wk.lookup_result = 0 /\ wk.rule.action = ACL_ACTION_LOG)
        => /\ wk.next0 = EBPF_CLASSIFY_NEXT_IP4_LOOKUP
           /\ "session_update" \in wk.calls
           /\ wk.counted = "processed"

DropRuleMatched(wk) ==
    wk.lookup_result = 0 /\ wk.rule.action = ACL_ACTION_DROP

\* C15: a buffer that matches a rule with action DROP goes to the DROP next
\* node with the DROPPED error, adds exactly 1 to the dropped count and
\* nothing to the processed count, and leaves the session map as it was with
\* no session call made; the node's return adds the frame's two counts, each
\* to its own field of em->stats.
C15_DropRuleEffect ==
    [][\A w \in Workers :
          LET wk == worker[w]
              wk2 == worker'[w]
          IN /\ (wk.pc = "apply" /\ wk2.pc # "apply" /\ DropRuleMatched(wk)) =>
                   /\ wk2.pc = "loop"
                   /\ wk2.next0 = EBPF_CLASSIFY_NEXT_DROP
                   /\ wk2.error = EBPF_CLASSIFY_ERROR_DROPPED
                   /\ wk2.pkts_dropped = wk.pkts_dropped + 1
                   /\ wk2.pkts_processed = wk.pkts_processed
                   /\ wk2.calls \cap {"session_lookup", "session_update"} = {}
                   /\ sessions' = sessions
             /\ (wk.pc = "store_processed" /\ wk2.pc # "store_processed") =>
                   /\ em'.stats.packets_processed =
                         em.stats.packets_processed + wk.pkts_processed
                   /\ em'.stats.packets_dropped = em.stats.packets_dropped
             /\ (wk.pc = "store_dropped" /\ wk2.pc # "store_dropped") =>
                   /\ em'.stats.packets_dropped =
                         em.stats.packets_dropped + wk.pkts_dropped
                   /\ em'.stats.packets_processed = em.stats.packets_processed
      ]_vars

\* A frame of one buffer that matched a DROP rule: packets_dropped is 1,
\* packets_processed 0, and there is no session.
C15_Witness ==
    /\ worker[MainThread].pc = "done"
    /\ worker[MainThread].pkts_dropped = 1
    /\ em.dual_protection_enabled
    /\ em.stats.packets_dropped = 1
    /\ em.stats.packets_processed = 0
    /\ now = 1
    /\ sessions = EmptyMap

\* C16: an IPv4 buffer shorter than the Ethernet and IPv4 headers goes to DROP
\* with the INVALID_PACKET error, with no map call and no count, and the loop
\* goes on with the buffers that are left: the frame is left only when none
\* is.
C16_InvalidDropsAndContinues ==
    /\ [][\A w \in Workers :
            LET wk == worker[w]
                wk2 == worker'[w]
            IN (/\ wk.pc = "loop"
                /\ wk2.b0 # NoBuffer
                /\ wk2.n_left_from # wk.n_left_from
                /\ IsIp4(wk2.b0) /\ ~HasIp4Header(wk2.b0))
               => /\ wk2.next0 = EBPF_CLASSIFY_NEXT_DROP
                  /\ wk2.error = EBPF_CLASSIFY_ERROR_INVALID_PACKET
                  /\ wk2.calls = {}
                  /\ wk2.counted = "none"
                  /\ wk2.pc = "loop"
                  /\ wk2.n_left_from = wk.n_left_from - 1
                  /\ UNCHANGED <<sessions, vpp_stats, acl_v4>>]_vars
    /\ [](\A w \in Workers :
            worker[w].pc \in {"store_processed", "load_dropped",
                              "store_dropped", "done"}
            => worker[w].n_left_from = 0)

\* A frame of two: the truncated buffer was dropped as invalid, then the
\* second buffer was looked up and counted as processed.
C16_Witness ==
    LET wk == worker[MainThread] IN
    /\ Enqueued(MainThread)
    /\ wk.n_left_from = 0
    /\ IsIp4(wk.prev) /\ ~HasIp4Header(wk.prev)
    /\ wk.n_invalid = 1
    /\ IsValidIp4(wk.b0)
    /\ wk.calls # {}
    /\ wk.pkts_processed = 1

\* The 5-tuple with its two endpoints in a fixed order.
Canonical(key) ==
    IF \/ key.src_ip < key.dst_ip
       \/ key.src_ip = key.dst_ip /\ key.src_port <= key.dst_port
    THEN key
    ELSE [key EXCEPT !.src_ip = key.dst_ip, !.dst_ip = key.src_ip,
                     !.src_port = key.dst_port, !.dst_port = key.src_port]

\* C17: the session key is the canonicalized 5-tuple: the buffers of one flow
\* seen in its two directions are accounted to one row, so no two rows of the
\* session map have the same canonical 5-tuple.
C17_OneRowPerFlow ==
    \A k1 \in DOMAIN sessions : \A k2 \in DOMAIN sessions :
        Canonical(k1) = Canonical(k2) => k1 = k2

SessionTuple(session) ==
    [src_ip |-> session.src_ip, dst_ip |-> session.dst_ip,
     src_port |-> session.src_port, dst_port |-> session.dst_port,
     protocol |-> session.protocol]

\* C18: after any interleaving of the update_session calls of concurrent
\* workers, the 5-tuple stored in every row of the session map equals the
\* row's key.
C18_RowMatchesKey ==
    \A k \in DOMAIN sessions : SessionTuple(sessions[k]) = k

\* Two workers wrote the row of one direction with their read-modify-writes
\* interleaved: three buffers were tracked in two rows, and each row holds the
\* bytes of one buffer only.
C18_Witness ==
    /\ \A w \in Workers : worker[w].pc = "done" /\ worker[w].pkts_processed > 0
    /\ worker[0].pkts_processed + worker[1].pkts_processed = 3
    /\ Cardinality(DOMAIN sessions) = 2
    /\ \A k \in DOMAIN sessions : sessions[k].bytes_rx = HSC_LEN_PORTS

\* C19: no statistics counter ever takes a value lower than one it held
\* before, also with concurrent workers: the kernel counters PASS, DROP,
\* REDIRECT, ERROR, the shared map_lookups and map_hits, and the local
\* packets_processed and packets_dropped.
C19_CountersMonotonic ==
    [][/\ \A c \in CPUs : \A k \in StatKeys : stats'[c][k] >= stats[c][k]
       /\ vpp_stats'[0].map_lookups >= vpp_stats[0].map_lookups
       /\ vpp_stats'[0].map_hits >= vpp_stats[0].map_hits
       /\ em'.stats.packets_processed >= em.stats.packets_processed
       /\ em'.stats.packets_dropped >= em.stats.packets_dropped]_vars

\* C20: once opening one of the three pinned maps has failed at init, dual
\* protection is off and the node classifies without the shared maps: it makes
\* no lookup or update through the ACL, stats or session descriptor, allows
\* every valid IPv4 buffer and counts it as processed.
C20_DegradedModeAvoidsMaps ==
    (hsc_ready /\ ~em.dual_protection_enabled) =>
        \A w \in Workers :
            /\ worker[w].calls = {}
            /\ (Enqueued(w) /\ IsValidIp4(worker[w].b0)) =>
                  /\ worker[w].next0 = EBPF_CLASSIFY_NEXT_IP4_LOOKUP
                  /\ worker[w].counted = "processed"

----------------------------------------------------------------------------
(* Claims about the session table and the shared statistics *)

\* The protocol timeouts of the session table, in seconds, and the time a row
\* has been idle.
TCP_TIMEOUT == 300
UDP_TIMEOUT == 60
HasTimeout(session) == session.protocol \in {IP_PROTOCOL_TCP, IP_PROTOCOL_UDP}
ProtocolTimeout(session) ==
    IF session.protocol = IP_PROTOCOL_TCP THEN TCP_TIMEOUT ELSE UDP_TIMEOUT
IdleSeconds(session) == (now - session.last_seen) * SecondsPerTick
IsExpired(session) ==
    HasTimeout(session) /\ IdleSeconds(session) > ProtocolTimeout(session)
IsLive(session) ==
    HasTimeout(session) /\ IdleSeconds(session) <= ProtocolTimeout(session)

\* update_session writes a row for a key the full table does not hold.
InsertsIntoFullTable(w) ==
    /\ worker[w].pc = "update_session"
    /\ worker'[w].pc = "loop"
    /\ em.session_map_fd = "open"
    /\ worker[w].key \notin DOMAIN sessions
    /\ Cardinality(DOMAIN sessions) = CONN_TABLE_SIZE

\* C21: when the session table is at capacity and update_session inserts a
\* row for a new 5-tuple, the row is in the table afterwards in the place of
\* one row that was evicted, and the evicted row is not a live one (idle for
\* no longer than its protocol timeout, TCP 300 s, UDP 60 s) while a row idle
\* for longer than its timeout is in the table.
C21_EvictionPrefersIdle ==
    [][\A w \in Workers :
          InsertsIntoFullTable(w) =>
              /\ worker[w].key \in DOMAIN sessions'
              /\ Cardinality(DOMAIN sessions \ DOMAIN sessions') = 1
              /\ \A e \in DOMAIN sessions \ DOMAIN sessions' :
                    IsLive(sessions[e]) =>
                        ~\E r \in DOMAIN sessions : IsExpired(sessions[r])]_vars

----------------------------------------------------------------------------
(* Claims about the drain loop and the free-frame allocator *)

\* The step handles one more descriptor; DrainedAddr is its frame address.
HandlesDescriptor == Len(handled') = Len(handled) + 1
DrainedAddr == handled'[Len(handled')].addr

C23_FillRingStockedAtPoll ==
    pc = "poll" => Len(fq) >= 1

\* C24: when xsk_free_umem_frame is called with the free list already
\* holding UMEM_NUM_FRAMES entries, the drainer stops: process_packets
\* returns instead of going on with the drain loop.
C24_OverflowIsFatal ==
    [][(HandlesDescriptor /\ umem_frame_free >= UMEM_NUM_FRAMES) =>
          pc' = "returned"]_vars

\* C25: a frame address outside the UMEM (not below UMEM_NUM_FRAMES *
\* FRAME_SIZE) in an RX descriptor stops the drainer: it is never handed to
\* the packet handler and never pushed onto the free list.
InUmem(a) == a >= 0 /\ a < UMEM_NUM_FRAMES * FRAME_SIZE
StrayDescriptorRead ==
    /\ pc = "handle"
    /\ ~InUmem(rx_ring[idx_rx % RING_SIZE].addr)
    /\ <<pc, i>>' # <<pc, i>>
C25_StrayAddressIsFatal ==
    /\ [](\A j \in 1 .. Len(handled) : InUmem(handled[j].addr))
    /\ [](\A k \in 0 .. umem_frame_free - 1 : InUmem(umem_frame_addr[k]))
    /\ [][StrayDescriptorRead => pc' = "returned"]_vars

\* C26: after any sequence of xsk_alloc_umem_frame and xsk_free_umem_frame
\* calls 0 <= umem_frame_free <= UMEM_NUM_FRAMES, no call accesses
\* umem_frame_addr outside the indexes 0 .. UMEM_NUM_FRAMES - 1, and an alloc
\* on the empty list returns INVALID_UMEM_FRAME and changes nothing.
C26_AllocatorInBounds ==
    /\ [](umem_frame_free \in 0 .. UMEM_NUM_FRAMES)
    /\ [](last_call.touched \subseteq FrameIndexes)
    /\ [][(umem_frame_free = 0 /\ last_call'.op = "alloc") =>
             /\ last_call'.frame = INVALID_UMEM_FRAME
             /\ last_call'.touched = {}
             /\ UNCHANGED <<umem_frame_addr, umem_frame_free>>]_vars

\* An alloc has just failed on the empty list, whose slots the allocs before
\* had emptied.
C26_Witness ==
    /\ umem_frame_free = 0
    /\ last_call = AllocCall(xsk_alloc_umem_frame(umem_frame_addr, 0))
    /\ \E k \in FrameIndexes : umem_frame_addr[k] = INVALID_UMEM_FRAME

----------------------------------------------------------------------------
(* Claims about update_session and the node's dispatch *)

\* The states of a session: NEW(0), ESTABLISHED(1), CLOSING(2).
SESSION_STATE_NEW == 0

\* update_session, having missed (hit) in its lookup, writes the row.
WritesSession(w) ==
    /\ worker[w].pc = "update_session"
    /\ worker'[w].pc = "loop"
    /\ em.session_map_fd = "open"
CreatesSession(w) == WritesSession(w) /\ worker[w].key \notin DOMAIN sessions
TouchesSession(w) == WritesSession(w) /\ worker[w].key \in DOMAIN sessions

\* C27: the row update_session creates on a miss has state NEW (0),
\* last_seen = now, bytes_rx = packet_len and bytes_tx = 0.
C27_NewRowFields ==
    [][\A w \in Workers :
          CreatesSession(w) =>
              LET row == sessions'[worker[w].key] IN
              /\ row.state = SESSION_STATE_NEW
              /\ row.last_seen = now
              /\ row.bytes_rx = worker[w].b0.len
              /\ row.bytes_tx = 0]_vars

\* C28: on a hit in stateful mode update_session sets last_seen to now, adds
\* packet_len to bytes_rx and leaves the row's 5-tuple, state and bytes_tx as
\* they were; no step changes a row other than the one update_session writes
\* (it may be evicted); with stateful_mode off the session table does not
\* change.  Hence, on one thread, bytes_rx of a row is the sum of the lengths
\* accounted to its key since the row was created.
C28_HitAccountsPacket ==
    [][/\ \A w \in Workers :
             TouchesSession(w) =>
                 sessions'[worker[w].key] =
                     [sessions[worker[w].key] EXCEPT
                         !.last_seen = now,
                         !.bytes_rx = @ + worker[w].b0.len]
       /\ \A k \in DOMAIN sessions \cap DOMAIN sessions' :
             (\A w \in Workers : ~(WritesSession(w) /\ worker[w].key = k))
                 => sessions'[k] = sessions[k]
       /\ ~em.stateful_mode => sessions' = sessions]_vars

\* Three buffers of one flow were accounted to its row, the last two on hits.
C28_Witness ==
    LET wk == worker[MainThread] IN
    /\ em.stateful_mode
    /\ now = 3
    /\ wk.pc = "loop"
    /\ "session_update" \in wk.calls
    /\ wk.key \in DOMAIN sessions
    /\ sessions[wk.key].bytes_rx = 3 * wk.b0.len
    /\ sessions[wk.key].last_seen = now

\* No thread is inside lookup_acl_rule.
NoConsultationInProgress ==
    \A w \in Workers : worker[w].pc \notin {"lookup_acl_rule", "stats_update"}

\* The buffers classified so far that hit a rule of the ACL table.  Every
\* buffer of HscWorkersSpec is a valid IPv4 buffer, so each one classified is
\* one consultation, and the table holds a rule for both directions or none.
ConsultationsThatHit == IF DOMAIN acl_v4 = {} THEN 0 ELSE now

\* C29: the increments of the shared statistics are atomic: with the stats
\* map open, after N consultations of the ACL of which H hit, made by any
\* number of threads in any interleaving, map_lookups is N and map_hits is H.
C29_NoLostIncrement ==
    (em.stats_map_fd = "open" /\ NoConsultationInProgress) =>
        /\ vpp_stats[0].map_lookups = now
        /\ vpp_stats[0].map_hits = ConsultationsThatHit

\* The buffers of the frame of thread w whose pass of the loop has ended.
InLoopBody(w) ==
    worker[w].pc \in {"lookup_acl_rule", "stats_update", "apply",
                      "update_session"}
BuffersPassed(w) ==
    next_frames[w].n_vectors - worker[w].n_left_from
        - (IF InLoopBody(w) THEN 1 ELSE 0)

\* The next nodes whose frames hold buffer index bi.
NextNodesHolding(w, bi) ==
    {n \in NextNodes :
        \E j \in DOMAIN next_frames[w].to_next[n] :
            next_frames[w].to_next[n][j] = bi}

\* C30: of every input frame, also one whose buffers go to different next
\* nodes or that has more buffers than a next frame has room, every buffer
\* is enqueued to exactly one next node exactly once, the buffers enqueued to
\* one next node keep the order of the input, and the node function returns
\* the number of buffers of the frame.
C30_EveryBufferEnqueuedOnce ==
    \A w \in Workers :
        LET f == next_frames[w] IN
        /\ \A bi \in 1 .. BuffersPassed(w) :
              Cardinality(NextNodesHolding(w, bi)) = 1
        /\ \A n \in NextNodes :
              /\ \A j \in DOMAIN f.to_next[n] :
                    f.to_next[n][j] \in 1 .. BuffersPassed(w)
              /\ \A j \in 1 .. Len(f.to_next[n]) - 1 :
                    f.to_next[n][j] < f.to_next[n][j + 1]
        /\ worker[w].pc = "done" =>
              /\ BuffersPassed(w) = f.n_vectors
              /\ f.ret = f.n_vectors

\* A frame of two buffers, more than a next frame has room for, of which the
\* first went to ip4-lookup and the second to error-drop.
C30_Witness ==
    LET f == next_frames[MainThread] IN
    /\ worker[MainThread].pc = "done"
    /\ f.n_vectors = 2
    /\ f.n_vectors > VLIB_FRAME_SIZE
    /\ f.ret = 2
    /\ f.to_next[EBPF_CLASSIFY_NEXT_IP4_LOOKUP] = <<1>>
    /\ f.to_next[EBPF_CLASSIFY_NEXT_DROP] = <<2>>

----------------------------------------------------------------------------
(* Claims about the hello-acl node *)

\* Interface x is enabled, as the node sees it: is_enabled reaches x and its
\* element for x is not zero.
IsEnabled(is_enabled, x) == x < Len(is_enabled) /\ is_enabled[x + 1] # 0

\* The buffers of the frame the loop body of hello_acl_inline has finished.
HelloBuffersPassed ==
    hello.frames.n_vectors - hello.n_left_from
        - (IF hello.pc \in {"inspect", "skip_processing"} THEN 1 ELSE 0)

\* set_enabled(x, e) on the flags as they are sets the flag of x to e and
\* leaves the flag of every other interface as it was.
SetEnabledSetsOneFlag ==
    \A x \in SwIfIndexes, e \in {0, 1} :
        LET after == hello_acl_set_enabled(hm.is_enabled, x, e) IN
        /\ IsEnabled(after, x) <=> (e = 1)
        /\ \A y \in SwIfIndexes \ {x} :
              IsEnabled(after, y) <=> IsEnabled(hm.is_enabled, y)

\* The packet in hand was received on an interface that is disabled or beyond
\* the end of is_enabled: it is not inspected and not logged; and is_enabled
\* is read inside its bounds only.
DisabledPacketUntouched ==
    hello.b0 # NoHelloPacket =>
        /\ \A x \in hello.read : x < Len(hm.is_enabled)
        /\ ~IsEnabled(hm.is_enabled, hello.b0.sw_if_index) =>
              ~hello.inspected /\ ~hello.logged

\* The buffers passed so far are the content of the frames of
\* interface-output, in order, each counted once in both local counts, and
\* the node returns the size of its frame.
EveryPacketForwardedAndCounted ==
    /\ hello.frames.to_next[HELLO_ACL_NEXT_INTERFACE_OUTPUT]
          = [k \in 1 .. HelloBuffersPassed |-> k]
    /\ hello.frames.to_next[HELLO_ACL_NEXT_DROP] = << >>
    /\ hello.pc \notin {"idle", "done"} =>
          /\ hello.pkts_processed = HelloBuffersPassed
          /\ hello.pkts_allowed = HelloBuffersPassed
    /\ hello.pc = "done" =>
          /\ HelloBuffersPassed = hello.frames.n_vectors
          /\ hello.frames.ret = hello.frames.n_vectors

\* C31: in the hello-acl node the enablement of each interface is respected
\* after any sequence of enable and disable commands: a command for
\* interface x sets the flag of x as asked and changes no other flag, and
\* nothing but the command changes a flag; a packet received on an interface
\* that is disabled or beyond the end of is_enabled is never inspected or
\* logged, and is_enabled is never read out of bounds; every packet, enabled
\* or not, is forwarded to interface-output and counted once in both
\* packets_processed and packets_allowed.
C31_EnablementRespected ==
    /\ [](SetEnabledSetsOneFlag /\ DisabledPacketUntouched
             /\ EveryPacketForwardedAndCounted)
    /\ [][/\ hm'.is_enabled # hm.is_enabled =>
                /\ hello.pc \in {"idle", "done"} /\ hello' = hello
                /\ \E x \in SwIfIndexes, e \in {0, 1} :
                      hm'.is_enabled
                          = hello_acl_set_enabled(hm.is_enabled, x, e)
          /\ hello'.pc = "done" /\ hello.pc # "done" =>
                /\ hm'.packets_processed
                      = hm.packets_processed + hello.frames.n_vectors
                /\ hm'.packets_allowed
                      = hm.packets_allowed + hello.frames.n_vectors
          /\ hello'.pc = hello.pc \/ hello'.pc # "done" =>
                /\ hm'.packets_processed = hm.packets_processed
                /\ hm'.packets_allowed = hm.packets_allowed]_vars

\* Commands have left interface 0 enabled and interface 1 disabled; a frame
\* of two packets was counted, and of the next frame an ICMP packet received
\* on interface 1 was forwarded and counted without being inspected.
C31_Witness ==
    /\ hm.is_enabled = <<1, 0>>
    /\ hm.packets_processed = 2
    /\ hm.packets_allowed = 2
    /\ hello.pc = "loop"
    /\ hello.b0 = HelloPacket(1, IP4_VERSION_AND_HEADER_LENGTH,
                              IP_PROTOCOL_ICMP, 0)
    /\ ~hello.inspected
    /\ hello.pkts_processed = 1
    /\ hello.frames.to_next[HELLO_ACL_NEXT_INTERFACE_OUTPUT] = <<1>>

=============================================================================
